---------------------------- MODULE Spec2Model ----------------------------
(***************************************************************************)
(* form-pdf: an in-browser PDF annotation editor.                          *)
(*                                                                         *)
(* The module models                                                       *)
(*   - the PDF compositor of src/lib/pdf-utils.ts (generatePDFWithText and *)
(*     its helpers),                                                       *)
(*   - the coordinate converter of the PDF viewer (screenToPdfCoordinates) *)
(*   - the editor of app/page.tsx with the TextElement overlay component.  *)
(*                                                                         *)
(* Numbers.  Every length is an integer number of 1/Unit page units (PDF   *)
(* points), so that the program's decimal constants (0.85, 0.55, 0.1, 0.5, *)
(* 8/1.2, 4/1.2 ...) are exact.  Font sizes are whole points.  Scales are  *)
(* in tenths (12 is the viewer's 1.2).                                     *)
(*                                                                         *)
(* Optional fields.  A field that TypeScript declares optional holds <<>>  *)
(* when absent (undefined) and <<v>> when present.                         *)
(***************************************************************************)
EXTENDS Integers, Sequences, FiniteSets, TLC

Unit == 3 * 100

Undefined == <<>>
Some(v) == <<v>>
IsDefined(o) == o # <<>>
Val(o) == o[1]

Max(a, b) == IF a >= b THEN a ELSE b
Min(a, b) == IF a <= b THEN a ELSE b
Abs(a) == IF a >= 0 THEN a ELSE 0 - a

(***************************************************************************)
(* Text.  A string that the program inspects character by character is a   *)
(* sequence of one-character strings.                                      *)
(***************************************************************************)
toUpperCase(c) ==
    CASE c = "a" -> "A"
      [] c = "i" -> "I"
      [] c = "m" -> "M"
      [] c = "w" -> "W"
      [] OTHER -> c

toLowerCase(c) ==
    CASE c = "A" -> "a"
      [] c = "I" -> "i"
      [] c = "M" -> "m"
      [] c = "W" -> "w"
      [] OTHER -> c

\* toUpperCase / toLowerCase of a string
upperCased(s) == [k \in 1..Len(s) |-> toUpperCase(s[k])]
lowerCased(s) == [k \in 1..Len(s) |-> toLowerCase(s[k])]

\* String.prototype.split(' '): the words between single spaces; an empty
\* string gives one empty word, two adjacent spaces give an empty word.
RECURSIVE SplitFrom(_, _, _)
SplitFrom(s, k, word) ==
    IF k > Len(s) THEN <<word>>
    ELSE IF s[k] = " " THEN <<word>> \o SplitFrom(s, k + 1, <<>>)
    ELSE SplitFrom(s, k + 1, Append(word, s[k]))

split(s) == SplitFrom(s, 1, <<>>)

\* Array.prototype.join(' ')
RECURSIVE join(_)
join(words) ==
    IF Len(words) = 0 THEN <<>>
    ELSE IF Len(words) = 1 THEN words[1]
    ELSE words[1] \o <<" ">> \o join(Tail(words))

\* word.charAt(0).toUpperCase() + word.slice(1).toLowerCase()
capitalizeWord(word) ==
    [k \in 1..Len(word) |-> IF k = 1 THEN toUpperCase(word[k]) ELSE toLowerCase(word[k])]

\* generatePDFWithText: "Apply text transformations"
processedContent(element) ==
    IF ~IsDefined(element.textTransform) THEN element.content
    ELSE CASE Val(element.textTransform) = "uppercase" ->
                upperCased(element.content)
           [] Val(element.textTransform) = "lowercase" ->
                lowerCased(element.content)
           [] Val(element.textTransform) = "capitalize" ->
                join([k \in 1..Len(split(element.content)) |->
                         capitalizeWord(split(element.content)[k])])
           [] OTHER -> element.content

(***************************************************************************)
(* Font families.  fontFamily.toLowerCase().includes(word) for the words   *)
(* the program looks for, over the family labels of the model.             *)
(***************************************************************************)
FamilyWords(fontFamily) ==
    CASE fontFamily = "Times New Roman" -> {"times", "roman"}
      [] fontFamily = "Courier New" -> {"courier"}
      [] OTHER -> {}

includes(fontFamily, word) == word \in FamilyWords(fontFamily)

\* getFontForFamily: the bold / italic decision (lines 39-40)
determinedBold(isBold, fontWeight) ==
    IF IsDefined(fontWeight) /\ Val(fontWeight) # 0
    THEN Val(fontWeight) >= 600 ELSE isBold

determinedItalic(isItalic, fontStyle) ==
    IF IsDefined(fontStyle)
    THEN Val(fontStyle) = "italic" \/ Val(fontStyle) = "oblique" ELSE isItalic

\* getFontForFamily: the StandardFonts member that is embedded
getFontForFamily(fontFamily, isBold, isItalic, fontWeight, fontStyle) ==
    LET b == determinedBold(isBold, fontWeight)
        i == determinedItalic(isItalic, fontStyle)
    IN  IF includes(fontFamily, "times") \/ includes(fontFamily, "roman")
        THEN IF b /\ i THEN "TimesRomanBoldItalic"
             ELSE IF b THEN "TimesRomanBold"
             ELSE IF i THEN "TimesRomanItalic"
             ELSE "TimesRoman"
        ELSE IF includes(fontFamily, "courier")
        THEN IF b /\ i THEN "CourierBoldOblique"
             ELSE IF b THEN "CourierBold"
             ELSE IF i THEN "CourierOblique"
             ELSE "Courier"
        ELSE IF b /\ i THEN "HelveticaBoldOblique"
             ELSE IF b THEN "HelveticaBold"
             ELSE IF i THEN "HelveticaOblique"
             ELSE "Helvetica"

(***************************************************************************)
(* Width estimation, in 1/Unit page units (ratios are in hundredths).      *)
(***************************************************************************)
Ratio(hundredths, fontSize) == (hundredths * fontSize * Unit) \div 100

estimateTextWidth(text, fontSize, fontFamily) ==
    LET avgCharWidth ==
            IF includes(fontFamily, "courier") THEN Ratio(60, fontSize)
            ELSE IF includes(fontFamily, "times") THEN Ratio(50, fontSize)
            ELSE Ratio(55, fontSize)
    IN  Len(text) * avgCharWidth

estimateCharWidth(char, fontSize, fontFamily) ==
    LET narrow == char \in {"i", "l", "t", "f"}
        wide == char \in {"m", "w", "M", "W"}
        charWidthRatio ==
            IF includes(fontFamily, "courier") THEN 60
            ELSE IF includes(fontFamily, "times")
                 THEN IF narrow THEN 30 ELSE IF wide THEN 80 ELSE 50
            ELSE IF narrow THEN 30 ELSE IF wide THEN 70 ELSE 55
    IN  Ratio(charWidthRatio, fontSize)

(***************************************************************************)
(* Colours.  hexToRgb works on the characters of the string.               *)
(***************************************************************************)
\* the value of a hexadecimal digit, -1 for any other character
HexVal(c) ==
    CASE c = "0" -> 0   [] c = "1" -> 1   [] c = "2" -> 2   [] c = "3" -> 3
      [] c = "4" -> 4   [] c = "5" -> 5   [] c = "6" -> 6   [] c = "7" -> 7
      [] c = "8" -> 8   [] c = "9" -> 9
      [] c \in {"a", "A"} -> 10   [] c \in {"b", "B"} -> 11
      [] c \in {"c", "C"} -> 12   [] c \in {"d", "D"} -> 13
      [] c \in {"e", "E"} -> 14   [] c \in {"f", "F"} -> 15
      [] OTHER -> -1

NaN == 0 - 1

\* parseInt(s, 16): the value of the longest prefix of hexadecimal digits,
\* NaN when there is none.
RECURSIVE ParseHexFrom(_, _, _)
ParseHexFrom(s, k, acc) ==
    IF k > Len(s) \/ HexVal(s[k]) < 0 THEN acc
    ELSE ParseHexFrom(s, k + 1, acc * 16 + HexVal(s[k]))

parseInt16(s) ==
    IF Len(s) = 0 \/ HexVal(s[1]) < 0 THEN NaN ELSE ParseHexFrom(s, 1, 0)

\* String.prototype.trim over the blank
RECURSIVE trim(_)
trim(s) ==
    IF Len(s) > 0 /\ s[1] = " " THEN trim(Tail(s))
    ELSE IF Len(s) > 0 /\ s[Len(s)] = " " THEN trim(SubSeq(s, 1, Len(s) - 1))
    ELSE s

Black == [r |-> 0, g |-> 0, b |-> 0]

hexToRgb(hex) ==
    LET sanitized == trim(IF Len(hex) > 0 /\ hex[1] = "#" THEN Tail(hex) ELSE hex)
    IN  IF Len(sanitized) = 0 THEN Black
        ELSE IF Len(sanitized) = 3
        THEN LET r == parseInt16(<<sanitized[1], sanitized[1]>>)
                 g == parseInt16(<<sanitized[2], sanitized[2]>>)
                 b == parseInt16(<<sanitized[3], sanitized[3]>>)
             IN  IF r = NaN \/ g = NaN \/ b = NaN THEN Black
                 ELSE [r |-> r, g |-> g, b |-> b]
        ELSE IF Len(sanitized) = 6
        THEN LET parsed == parseInt16(sanitized)
                 \* (NaN >> 16) & 255 is 0: the bit operators take NaN as 0
                 bigint == IF parsed = NaN THEN 0 ELSE parsed
             IN  [r |-> (bigint \div 65536) % 256,
                  g |-> (bigint \div 256) % 256,
                  b |-> bigint % 256]
        ELSE Black

(***************************************************************************)
(* Validation.  The fields are typed in the model, so of the typeof and    *)
(* isFinite tests only the value tests remain.                             *)
(***************************************************************************)
\* mutant: the font size is not validated
validateTextElementNoFontSize(el) ==
    /\ el.id # ""
    /\ el.x >= 0
    /\ el.y >= 0
    /\ el.fontFamily # ""
    /\ Len(el.color) > 0
    /\ el.pageNumber > 0

validateTextElement(el) ==
    /\ el.id # ""
    /\ el.x >= 0
    /\ el.y >= 0
    /\ el.fontSize > 0
    /\ el.fontFamily # ""
    /\ Len(el.color) > 0
    /\ el.pageNumber > 0

(***************************************************************************)
(* Drawing one element.  What is drawn on a page is two lists: the         *)
(* page.drawText calls and the page.drawLine calls, in call order; el is   *)
(* the index in the batch of the element a call was made for.              *)
(***************************************************************************)
xOffset == 0 - (Unit \div 10)
yOffset == 0 - (4 * Unit)
baselineMultiplier == 85
minMargin == 0

\* mutant: the offset of the older compositor, -0.4
drawXOlder(element) == Max(minMargin, element.x - (4 * Unit) \div 10)

drawX(element) == Max(minMargin, element.x + xOffset)

\* mutant: the Y axis is not flipped
drawYNoFlip(element, height) ==
    Max(minMargin, element.y + Ratio(baselineMultiplier, element.fontSize) + yOffset)

drawY(element, height) ==
    Max(minMargin,
        height - element.y - Ratio(baselineMultiplier, element.fontSize) + yOffset)

Opacity(element) == IF IsDefined(element.opacity) THEN Val(element.opacity) ELSE 100

Spacing(o) == IF IsDefined(o) THEN Val(o) ELSE 0

TextOp(element, idx, text, x, y) ==
    [el |-> idx, text |-> text, x |-> x, y |-> y, size |-> element.fontSize,
     font |-> getFontForFamily(element.fontFamily, element.bold, element.italic,
                               element.fontWeight, element.fontStyle),
     color |-> hexToRgb(element.color), opacity |-> Opacity(element)]

\* the inner loop over the characters of a word (letterSpacing # 0)
RECURSIVE DrawChars(_, _, _, _, _, _)
DrawChars(element, idx, word, charIndex, currentX, y) ==
    IF charIndex > Len(word) THEN [ops |-> <<>>, currentX |-> currentX]
    ELSE LET char == word[charIndex]
             charWidth == estimateCharWidth(char, element.fontSize, element.fontFamily)
             rest == DrawChars(element, idx, word, charIndex + 1,
                               currentX + charWidth + Spacing(element.letterSpacing), y)
         IN  [ops |-> <<TextOp(element, idx, <<char>>, currentX, y)>> \o rest.ops,
              currentX |-> rest.currentX]

\* the loop over the words with the advance between two words left at the
\* blank's width alone
RECURSIVE DrawWordsBlankOnly(_, _, _, _, _, _)
DrawWordsBlankOnly(element, idx, words, wordIndex, currentX, y) ==
    IF wordIndex > Len(words) THEN [ops |-> <<>>, currentX |-> currentX]
    ELSE LET word == words[wordIndex]
             drawn ==
                 IF Spacing(element.letterSpacing) # 0
                 THEN DrawChars(element, idx, word, 1, currentX, y)
                 ELSE [ops |-> <<TextOp(element, idx, word, currentX, y)>>,
                       currentX |-> currentX +
                           estimateTextWidth(word, element.fontSize, element.fontFamily)]
             spaceWidth == estimateCharWidth(" ", element.fontSize, element.fontFamily)
             afterSpace ==
                 IF wordIndex < Len(words)
                 THEN drawn.currentX + spaceWidth
                 ELSE drawn.currentX
             rest == DrawWordsBlankOnly(element, idx, words, wordIndex + 1, afterSpace, y)
         IN  [ops |-> drawn.ops \o rest.ops, currentX |-> rest.currentX]

\* the loop over the words
RECURSIVE DrawWords(_, _, _, _, _, _)
DrawWords(element, idx, words, wordIndex, currentX, y) ==
    IF wordIndex > Len(words) THEN [ops |-> <<>>, currentX |-> currentX]
    ELSE LET word == words[wordIndex]
             drawn ==
                 IF Spacing(element.letterSpacing) # 0
                 THEN DrawChars(element, idx, word, 1, currentX, y)
                 ELSE [ops |-> <<TextOp(element, idx, word, currentX, y)>>,
                       currentX |-> currentX +
                           estimateTextWidth(word, element.fontSize, element.fontFamily)]
             spaceWidth == estimateCharWidth(" ", element.fontSize, element.fontFamily)
             afterSpace ==
                 IF wordIndex < Len(words)
                 THEN drawn.currentX + spaceWidth + Spacing(element.wordSpacing)
                 ELSE drawn.currentX
             rest == DrawWords(element, idx, words, wordIndex + 1, afterSpace, y)
         IN  [ops |-> drawn.ops \o rest.ops, currentX |-> rest.currentX]

\* "Handle letter spacing and word spacing by drawing characters/words
\* individually", else one page.drawText of the whole string
DrawText(element, idx, height) ==
    LET x == drawX(element)
        y == drawY(element, height)
        content == processedContent(element)
    IN  IF Spacing(element.letterSpacing) # 0 \/ Spacing(element.wordSpacing) # 0
        THEN DrawWords(element, idx, split(content), 1, x, y).ops
        ELSE <<TextOp(element, idx, content, x, y)>>

\* mutant: the legacy flag is looked at first
decorationLegacyFirst(element) ==
    IF element.underline THEN "underline"
    ELSE IF IsDefined(element.textDecoration) THEN Val(element.textDecoration)
    ELSE "none"

\* "Determine which decoration to apply (priority: textDecoration over
\* legacy underline)"
decoration(element) ==
    IF IsDefined(element.textDecoration) THEN Val(element.textDecoration)
    ELSE IF element.underline THEN "underline" ELSE "none"

\* the Y of the decoration line, relative to the text's y
decorationY(element, kind, y) ==
    CASE kind = "underline" -> y - 2 * Unit
      [] kind = "line-through" -> y + Ratio(30, element.fontSize)
      [] kind = "overline" -> y + element.fontSize * Unit

DrawDecoration(element, idx, height) ==
    LET x == drawX(element)
        y == drawY(element, height)
        textWidth == estimateTextWidth(processedContent(element),
                                       element.fontSize, element.fontFamily)
        kind == decoration(element)
    IN  IF kind \in {"underline", "line-through", "overline"}
        THEN <<[el |-> idx, kind |-> kind,
                startX |-> x, startY |-> decorationY(element, kind, y),
                endX |-> x + textWidth, endY |-> decorationY(element, kind, y),
                thickness |-> 1,
                color |-> hexToRgb(element.color), opacity |-> Opacity(element)]>>
        ELSE <<>>

(***************************************************************************)
(* generatePDFWithText.  pdfData is [kind, pages]: kind "null" (no         *)
(* buffer), "corrupt" (PDFDocument.load throws) or "pdf" with the sizes of *)
(* its pages.  The result is [ok, pages]: ok = FALSE is the rejection of   *)
(* the promise.                                                            *)
(***************************************************************************)
EmptyPage == [texts |-> <<>>, lines |-> <<>>]

\* elements.reduce(...): the batch indices of the elements of one page key
RECURSIVE elementsByPage(_, _, _)
elementsByPage(elements, pageNumber, k) ==
    IF k > Len(elements) THEN <<>>
    ELSE (IF elements[k].pageNumber = pageNumber THEN <<k>> ELSE <<>>)
         \o elementsByPage(elements, pageNumber, k + 1)

\* the loop "for (const element of pageElements)" with its try / catch
RECURSIVE ProcessElements(_, _, _, _)
ProcessElements(elements, pageElements, k, height) ==
    IF k > Len(pageElements) THEN EmptyPage
    ELSE LET idx == pageElements[k]
             element == elements[idx]
             rest == ProcessElements(elements, pageElements, k + 1, height)
         IN  IF ~validateTextElement(element) THEN rest
             ELSE [texts |-> DrawText(element, idx, height) \o rest.texts,
                   lines |-> DrawDecoration(element, idx, height) \o rest.lines]

\* Object.entries(elementsByPage): the page numbers that occur in the batch,
\* each once (a page's elements are drawn on that page alone, so the order
\* of the keys does not show in the result; first occurrence is used)
RECURSIVE pageKeys(_, _, _)
pageKeys(elements, k, seen) ==
    IF k > Len(elements) THEN <<>>
    ELSE IF elements[k].pageNumber \in seen THEN pageKeys(elements, k + 1, seen)
    ELSE <<elements[k].pageNumber>>
         \o pageKeys(elements, k + 1, seen \cup {elements[k].pageNumber})

\* the loop "for (const [pageNumberStr, pageElements] of Object.entries(...))"
RECURSIVE ProcessPages(_, _, _, _, _)
ProcessPages(pdfData, doc, elements, keys, k) ==
    IF k > Len(keys) THEN doc
    ELSE LET pageNumber == keys[k]
             pageIndex == pageNumber - 1
         IN  IF pageIndex < 0 \/ pageIndex >= Len(pdfData.pages)
             THEN ProcessPages(pdfData, doc, elements, keys, k + 1)
             ELSE LET height == pdfData.pages[pageIndex + 1].height
                      drawn == ProcessElements(elements,
                                   elementsByPage(elements, pageNumber, 1), 1, height)
                      page == [texts |-> doc[pageIndex + 1].texts \o drawn.texts,
                               lines |-> doc[pageIndex + 1].lines \o drawn.lines]
                  IN  ProcessPages(pdfData, [doc EXCEPT ![pageIndex + 1] = page],
                                   elements, keys, k + 1)

\* mutant: a source that does not load gives a document without pages
generatePDFWithTextBlank(pdfData, elements) ==
    [ok |-> TRUE,
     pages |-> ProcessPages(pdfData,
                            [pageNumber \in 1..Len(pdfData.pages) |-> EmptyPage],
                            elements, pageKeys(elements, 1, {}), 1)]

generatePDFWithText(pdfData, elements) ==
    IF pdfData.kind # "pdf" THEN [ok |-> FALSE, pages |-> <<>>]
    ELSE [ok |-> TRUE,
          pages |-> ProcessPages(pdfData,
                                 [pageNumber \in 1..Len(pdfData.pages) |-> EmptyPage],
                                 elements, pageKeys(elements, 1, {}), 1)]

\* previewPDFWithText / downloadPDFWithText: the bytes of the saved
\* document, or the Error thrown to the caller
NoBytes == [ok |-> FALSE, pages |-> <<>>]

previewPDFWithText(pdfData, elements) ==
    LET pdfDoc == generatePDFWithText(pdfData, elements)
    IN  IF pdfDoc.ok THEN [threw |-> FALSE, bytes |-> pdfDoc]
        ELSE [threw |-> TRUE, bytes |-> NoBytes]

downloadPDFWithText(pdfData, elements) ==
    LET pdfDoc == generatePDFWithText(pdfData, elements)
    IN  IF pdfDoc.ok THEN [threw |-> FALSE, bytes |-> pdfDoc]
        ELSE [threw |-> TRUE, bytes |-> NoBytes]

(***************************************************************************)
(* The coordinate converter of the viewer.  Screen coordinates are whole   *)
(* pixels, scale is in tenths; relative / scale is exact for the scales of *)
(* the model.                                                              *)
(***************************************************************************)
snapThreshold == 20 * Unit

\* "let closestYDistance = Infinity": any value above the threshold behaves
\* as Infinity does in the two comparisons it takes part in
Infinity == snapThreshold + 1

ToPdf(relative, scale) == (relative * Unit * 10) \div scale

\* allSnapTargets: the manual elements of the current page (padding added),
\* then the text items of the PDF page
manualTargets(pageElements) ==
    [k \in 1..Len(pageElements) |->
        [textY |-> pageElements[k].y + 4 * Unit,
         textX |-> pageElements[k].x + 8 * Unit,
         type |-> "manual"]]

pdfTargets(items) ==
    [k \in 1..Len(items) |-> [textY |-> items[k].y, textX |-> items[k].x, type |-> "pdf"]]

allSnapTargets(textElements, currentPage, pdfTextItems) ==
    manualTargets(SelectSeq(textElements, LAMBDA el : el.pageNumber = currentPage))
    \o pdfTargets(pdfTextItems)

\* mutant: a later target at the same distance replaces the earlier one
closerLast(distance, closestDistance) ==
    distance <= closestDistance /\ distance <= snapThreshold

\* one turn of "for (const target of allSnapTargets)" on one axis
closer(distance, closestDistance) ==
    distance < closestDistance /\ distance <= snapThreshold

RECURSIVE closestTarget(_, _, _, _)
closestTarget(targets, k, pdfX, pdfY) ==
    IF k = 0
    THEN [closestYDistance |-> Infinity, closestY |-> pdfY, closestYType |-> "none",
          closestXDistance |-> Infinity, closestX |-> pdfX, closestXType |-> "none"]
    ELSE LET c == closestTarget(targets, k - 1, pdfX, pdfY)
             target == targets[k]
             yDistance == Abs(target.textY - pdfY)
             xDistance == Abs(target.textX - pdfX)
             snapY == closer(yDistance, c.closestYDistance)
             snapX == closer(xDistance, c.closestXDistance)
         IN  [closestYDistance |-> IF snapY THEN yDistance ELSE c.closestYDistance,
              closestY |-> IF snapY THEN target.textY ELSE c.closestY,
              closestYType |-> IF snapY THEN target.type ELSE c.closestYType,
              closestXDistance |-> IF snapX THEN xDistance ELSE c.closestXDistance,
              closestX |-> IF snapX THEN target.textX ELSE c.closestX,
              closestXType |-> IF snapX THEN target.type ELSE c.closestXType]

\* mutant: the padding added for the comparison is not taken off again
alignedKeepPadding(targets, pdfX, pdfY) ==
    IF Len(targets) = 0 THEN [x |-> pdfX, y |-> pdfY]
    ELSE LET c == closestTarget(targets, Len(targets), pdfX, pdfY)
         IN  [x |-> IF c.closestXDistance <= snapThreshold THEN c.closestX ELSE pdfX,
              y |-> IF c.closestYDistance <= snapThreshold THEN c.closestY ELSE pdfY]

\* "Apply snapping if close enough"
aligned(targets, pdfX, pdfY) ==
    IF Len(targets) = 0 THEN [x |-> pdfX, y |-> pdfY]
    ELSE LET c == closestTarget(targets, Len(targets), pdfX, pdfY)
         IN  [x |-> IF c.closestXDistance <= snapThreshold
                    THEN (IF c.closestXType = "manual"
                          THEN c.closestX - 8 * Unit ELSE c.closestX)
                    ELSE pdfX,
              y |-> IF c.closestYDistance <= snapThreshold
                    THEN (IF c.closestYType = "manual"
                          THEN c.closestY - 4 * Unit ELSE c.closestY)
                    ELSE pdfY]

\* mutant: only the lower bound is applied
constrainedNoUpper(value, limit) == Max(0, value)

\* "Constrain to PDF bounds"
constrained(value, limit) == Max(0, Min(value, limit))

\* screenToPdfCoordinates of the viewer with line alignment.  The record
\* also keeps the intermediate values the function logs.
screenToPdfCoordinates(screenX, screenY, mounted, pageRect, scale, pageDimensions, textElements, currentPage, pdfTextItems) ==
    IF ~mounted
    THEN [pdfX |-> 0, pdfY |-> 0, alignedX |-> 0, alignedY |-> 0, x |-> 0, y |-> 0]
    ELSE LET pdfX == ToPdf(screenX - pageRect.left, scale)
             pdfY == ToPdf(screenY - pageRect.top, scale)
             a == aligned(allSnapTargets(textElements, currentPage, pdfTextItems),
                          pdfX, pdfY)
         IN  [pdfX |-> pdfX, pdfY |-> pdfY, alignedX |-> a.x, alignedY |-> a.y,
              x |-> constrained(a.x, pageDimensions.width),
              y |-> constrained(a.y, pageDimensions.height)]

\* screenToPdfCoordinates of components/PDFViewer.tsx: no line alignment
screenToPdfCoordinatesPlain(screenX, screenY, mounted, pageRect, scale, pageDimensions) ==
    IF ~mounted THEN [x |-> 0, y |-> 0]
    ELSE [x |-> constrained(ToPdf(screenX - pageRect.left, scale), pageDimensions.width),
          y |-> constrained(ToPdf(screenY - pageRect.top, scale), pageDimensions.height)]

\* handleDropPredefinedText: the position it hands to
\* addTextElementAtPosition.  "const scale = 1.2"; mounted is whether
\* document.querySelector('.react-pdf__Page') finds the page.
dropPosition(screenX, screenY, mounted, pageRect) ==
    IF mounted
    THEN [x |-> Max(0, ToPdf(screenX - pageRect.left, 12) + (8 * Unit * 10) \div 12),
          y |-> Max(0, ToPdf(screenY - pageRect.top, 12) + (4 * Unit * 10) \div 12)]
    ELSE [x |-> 100 * Unit, y |-> 100 * Unit]

(***************************************************************************)
(* State.                                                                  *)
(*   Page (app/page.tsx): pdfData, previewPdfData, numPages, currentPage,  *)
(*     textElements, selectedElementId, isLoading, isPreviewMode; nextId   *)
(*     stands for the Date.now() / Math.random() part of a new id.         *)
(*   PDFViewer: scale, pageDimensions, pdfTextItems; documentLoaded is     *)
(*     whether the Document has loaded (the .react-pdf__Page element is    *)
(*     there); renderedPage is the page whose onLoadSuccess has fired (0   *)
(*     for none); pageRect is its bounding box on the screen; extracting   *)
(*     is the page.getTextContent() calls that have not resolved.          *)
(*   TextElement: drag is the isDragging / dragStart / initialPosition     *)
(*     state of the element the pointer went down on; drags counts the     *)
(*     times the pointer went down on an overlay, nudges the arrow keys    *)
(*     pressed; edit is the element whose isEditing is set, with its       *)
(*     editValue.                                                          *)
(*   Calls of the compositor and of the converter: elements is the batch   *)
(*     handed to the compositor, composed what it gave back, conv what the *)
(*     last screenToPdfCoordinates call computed, rgb the string handed to *)
(*     hexToRgb and what it gave back.                                     *)
(*   Calls of the store: adding is the addTextElementAtPosition call that  *)
(*     awaits analyzePDFForDefaultFont, previewing the preview runs that   *)
(*     handlePreview has started and that have not finished, oldest first, *)
(*     each with the pdfData and the textElements its timer callback       *)
(*     closed over, op the last store operation that returned, with the    *)
(*     store and the selection it started from.                            *)
(***************************************************************************)
VARIABLES pdfData, previewPdfData, numPages, currentPage, textElements,
          selectedElementId, isLoading, isPreviewMode, nextId,
          scale, pageDimensions, pdfTextItems, documentLoaded, renderedPage, pageRect,
          extracting,
          drag, drags, nudges, edit,
          elements, composed, conv, rgb,
          adding, previewing, op

pageVars == <<pdfData, previewPdfData, numPages, currentPage, textElements,
              selectedElementId, isLoading, isPreviewMode, nextId>>
viewerVars == <<scale, pageDimensions, pdfTextItems, documentLoaded, renderedPage,
                pageRect, extracting>>
overlayVars == <<drag, drags, nudges, edit>>
callVars == <<elements, composed, conv, rgb, adding, previewing, op>>
vars == <<pageVars, viewerVars, overlayVars, callVars>>

(***************************************************************************)
(* Values.                                                                 *)
(***************************************************************************)
NoPdf == [kind |-> "null", pages |-> <<>>]
CorruptPdf == [kind |-> "corrupt", pages |-> <<>>]

Letter == [width |-> 612 * Unit, height |-> 792 * Unit, items |-> <<>>]

\* useState({ width: 800, height: 600 }) of the viewer and of the Page
DefaultPageDimensions == [width |-> 800 * Unit, height |-> 600 * Unit]

NoSelection == ""
NoDrag == [phase |-> "idle", id |-> "", startX |-> 0, startY |-> 0,
           initialX |-> 0, initialY |-> 0]
NotComposed == [kind |-> "none", threw |-> FALSE, bytes |-> NoBytes]
NoConv == [called |-> FALSE, screenX |-> 0, screenY |-> 0,
           pdfX |-> 0, pdfY |-> 0, alignedX |-> 0, alignedY |-> 0, x |-> 0, y |-> 0,
           plain |-> [x |-> 0, y |-> 0]]

\* useState(false) of isEditing in every overlay
NoEdit == [id |-> "", editValue |-> <<>>]

NoRgb == [called |-> FALSE, hex |-> <<>>, r |-> 0, g |-> 0, b |-> 0]

NoAdd == [pending |-> FALSE, x |-> 0, y |-> 0, content |-> <<>>, isPredefined |-> FALSE,
          pageNumber |-> 0]
NoOp == [kind |-> "none", id |-> "", updates |-> <<>>, before |-> <<>>, selected |-> "",
         preview |-> FALSE, threw |-> FALSE]
NoPreviewing == <<>>

ElementId(n) ==
    CASE n = 1 -> "text-1" [] n = 2 -> "text-2" [] n = 3 -> "text-3"
      [] n = 4 -> "text-4" [] n = 5 -> "text-5" [] n = 6 -> "text-6"
      [] OTHER -> "text-7"

NewText == <<"N", "e", "w", " ", "T", "e", "x", "t">>
BlackHex == <<"#", "0", "0", "0", "0", "0", "0">>

\* addTextElementAtPosition: the element it constructs (analyzePDFForDefaultFont
\* always resolves to { fontSize: 12, fontFamily: 'Helvetica', color: '#000000' })
newElement(id, content, x, y, pageNumber, isPredefined) ==
    [id |-> id, content |-> content,
     x |-> Max(0, x), y |-> Max(0, y),
     fontSize |-> 12, fontFamily |-> "Helvetica", color |-> BlackHex,
     bold |-> FALSE, italic |-> FALSE, underline |-> FALSE,
     pageNumber |-> pageNumber, isPredefined |-> isPredefined,
     letterSpacing |-> Some(0), wordSpacing |-> Some(0),
     textTransform |-> Some("none"), textDecoration |-> Some("none"),
     fontWeight |-> Some(400), fontStyle |-> Some("normal"),
     opacity |-> Some(100)]

IdlePage ==
    /\ previewPdfData = NoBytes
    /\ numPages = 1
    /\ currentPage = 1
    /\ textElements = <<>>
    /\ selectedElementId = NoSelection
    /\ isLoading = FALSE
    /\ isPreviewMode = FALSE
    /\ nextId = 1

IdleViewer ==
    /\ scale = 12
    /\ pageDimensions = DefaultPageDimensions
    /\ pdfTextItems = <<>>
    /\ documentLoaded = FALSE
    /\ renderedPage = 0
    /\ pageRect = [left |-> 0, top |-> 0]
    /\ extracting = {}

IdleOverlay ==
    /\ drag = NoDrag
    /\ drags = 0
    /\ nudges = 0
    /\ edit = NoEdit

(***************************************************************************)
(* The compositor called on a batch.  The batches are                      *)
(*   - one element, varied in its geometry and decoration, in its font     *)
(*     attributes, or in its content and spacing;                          *)
(*   - up to MaxBatch elements, each valid or invalid in one field, on     *)
(*     pages in and out of the document's range.                           *)
(***************************************************************************)
MaxBatch == 3

SmallPage == [width |-> 300 * Unit, height |-> 400 * Unit, items |-> <<>>]
OnePagePdf == [kind |-> "pdf", pages |-> <<Letter>>]
TwoPagePdf == [kind |-> "pdf", pages |-> <<Letter, SmallPage>>]
ComposePdfs == {NoPdf, CorruptPdf, OnePagePdf, TwoPagePdf}

Contents == { <<>>, <<"a", "i">>, <<"a", " ", "m">>, <<"W", "i", "m">>,
              <<"i", "A", " ", " ", "w">> }
Families == {"Helvetica", "Arial", "Times New Roman", "Courier New"}
Colors == {BlackHex, <<"#", "f", "8", "0">>}

BaseElement == newElement("text-1", <<"a", "i">>, 100 * Unit, 100 * Unit, 1, FALSE)

GeometryElements ==
    {[BaseElement EXCEPT !.x = x, !.y = y, !.fontSize = fontSize,
                         !.textDecoration = textDecoration, !.underline = underline,
                         !.color = color, !.opacity = opacity] :
        x \in {0, Unit \div 20, 100 * Unit, 612 * Unit},
        y \in {0, 100 * Unit, 780 * Unit, 792 * Unit},
        fontSize \in {12, 24},
        textDecoration \in {Undefined, Some("none"), Some("underline"),
                            Some("overline"), Some("line-through")},
        underline \in BOOLEAN,
        color \in Colors,
        opacity \in {Undefined, Some(50)}}

FontElements ==
    {[BaseElement EXCEPT !.fontFamily = fontFamily, !.fontWeight = fontWeight,
                         !.fontStyle = fontStyle, !.bold = bold, !.italic = italic] :
        fontFamily \in Families,
        fontWeight \in {Undefined, Some(0), Some(400), Some(600), Some(700)},
        fontStyle \in {Undefined, Some("normal"), Some("italic"), Some("oblique")},
        bold \in BOOLEAN,
        italic \in BOOLEAN}

LayoutElements ==
    {[BaseElement EXCEPT !.content = content, !.fontFamily = fontFamily,
                         !.fontSize = fontSize, !.letterSpacing = letterSpacing,
                         !.wordSpacing = wordSpacing, !.textTransform = textTransform,
                         !.textDecoration = textDecoration] :
        content \in Contents,
        fontFamily \in Families \ {"Arial"},
        fontSize \in {10, 12},
        letterSpacing \in {Undefined, Some(0), Some(2 * Unit)},
        wordSpacing \in {Undefined, Some(0), Some(5 * Unit)},
        textTransform \in {Undefined, Some("none"), Some("uppercase"),
                           Some("lowercase"), Some("capitalize")},
        textDecoration \in {Some("none"), Some("underline")}}

\* valid on pages -1 .. 3, or on page 1 and invalid in one field, or on
\* page 1 with a colour that is no hex colour
ValidityElements ==
    {[BaseElement EXCEPT !.pageNumber = pageNumber] : pageNumber \in (0 - 1)..3}
    \cup {[BaseElement EXCEPT !.id = ""],
          [BaseElement EXCEPT !.fontSize = 0 - 12],
          [BaseElement EXCEPT !.fontSize = 0],
          [BaseElement EXCEPT !.x = 0 - Unit],
          [BaseElement EXCEPT !.y = 0 - Unit],
          [BaseElement EXCEPT !.fontFamily = ""],
          [BaseElement EXCEPT !.color = <<>>],
          [BaseElement EXCEPT !.color = <<"z", "z">>]}

\* { x: 100, y: 100, fontSize: 12, content: "Hello" } on page 1
HelloElement == [BaseElement EXCEPT !.content = <<"H", "e", "l", "l", "o">>]

Batches ==
    {<<e>> : e \in GeometryElements \cup FontElements \cup LayoutElements
                   \cup {HelloElement}}
    \cup UNION {[1..n -> ValidityElements] : n \in 0..MaxBatch}

InitCompose ==
    /\ IdlePage
    /\ IdleViewer
    /\ IdleOverlay
    /\ conv = NoConv
    /\ rgb = NoRgb
    /\ adding = NoAdd
    /\ previewing = NoPreviewing
    /\ op = NoOp
    /\ pdfData \in ComposePdfs
    /\ elements \in Batches
    /\ composed = NotComposed

\* a caller awaits previewPDFWithText(pdfData, elements)
Preview ==
    /\ composed.kind = "none"
    /\ composed' = [kind |-> "preview"] @@ previewPDFWithText(pdfData, elements)
    /\ UNCHANGED <<pageVars, viewerVars, overlayVars, elements, conv, rgb, adding, previewing, op>>

\* a caller awaits downloadPDFWithText(pdfData, elements)
Download ==
    /\ composed.kind = "none"
    /\ composed' = [kind |-> "download"] @@ downloadPDFWithText(pdfData, elements)
    /\ UNCHANGED <<pageVars, viewerVars, overlayVars, elements, conv, rgb, adding, previewing, op>>

NextCompose == Preview \/ Download

SpecCompose == InitCompose /\ [][NextCompose]_vars

(***************************************************************************)
(* Properties of the compositor (SpecCompose).                             *)
(***************************************************************************)
ComposedOk == composed.kind # "none" /\ ~composed.threw

\* the data-model invariants an element must meet to be drawn
WellFormed(e) ==
    /\ e.id # "" /\ e.fontFamily # "" /\ e.color # <<>>
    /\ e.x >= 0 /\ e.y >= 0
    /\ e.fontSize >= 1
    /\ e.pageNumber >= 1

InRange(e) == e.pageNumber >= 1 /\ e.pageNumber <= Len(pdfData.pages)

TextsOf(k, p) == SelectSeq(composed.bytes.pages[p].texts, LAMBDA t : t.el = k)
LinesOf(k, p) == SelectSeq(composed.bytes.pages[p].lines, LAMBDA l : l.el = k)

PageHeight(e) == pdfData.pages[e.pageNumber].height
PageWidth(e) == pdfData.pages[e.pageNumber].width

OnPage(e) == e.x >= 0 /\ e.x <= PageWidth(e) /\ e.y >= 0 /\ e.y <= PageHeight(e)

\* x + xOffset and pageHeight - y - 0.85 * s + yOffset, with xOffset = -0.1
\* and yOffset = -4
FlippedX(e) == e.x - Unit \div 10
FlippedY(e) == PageHeight(e) - e.y - (85 * e.fontSize * Unit) \div 100 - 4 * Unit

\* C2 as stated: every valid element on an in-range page, placed anywhere on
\* the page, has its text drawn from x + xOffset at
\* pageHeight - y - 0.85 * fontSize + yOffset.
C2_OriginIsFlippedEverywhere ==
    ComposedOk =>
        \A k \in 1..Len(elements) :
            LET e == elements[k]
            IN  (WellFormed(e) /\ InRange(e) /\ OnPage(e)) =>
                    LET ops == TextsOf(k, e.pageNumber)
                    IN  /\ Len(ops) > 0 => ops[1].x = FlippedX(e)
                        /\ \A j \in 1..Len(ops) : ops[j].y = FlippedY(e)

\* C2 amended: the text of every valid element on an in-range page is drawn
\* from max(0, x + xOffset) at max(0, pageHeight - y - 0.85 * fontSize +
\* yOffset): the Y flip, clamped at the page's lower and left edge.
C2_OriginIsFlippedAndClamped ==
    ComposedOk =>
        \A k \in 1..Len(elements) :
            LET e == elements[k]
            IN  (WellFormed(e) /\ InRange(e) /\ OnPage(e)) =>
                    LET ops == TextsOf(k, e.pageNumber)
                    IN  /\ Len(ops) > 0 => ops[1].x = Max(0, FlippedX(e))
                        /\ \A j \in 1..Len(ops) : ops[j].y = Max(0, FlippedY(e))

\* an element low on the page whose baseline is clamped to 0, and one whose
\* baseline is the flipped one
C2_Witness ==
    /\ ComposedOk
    /\ Len(elements) = 1
    /\ WellFormed(elements[1]) /\ InRange(elements[1]) /\ OnPage(elements[1])
    /\ FlippedY(elements[1]) < 0
    /\ Len(TextsOf(1, 1)) = 1
    /\ TextsOf(1, 1)[1].y = 0

\* the characters other than the blank, in order
RECURSIVE NonBlank(_)
NonBlank(text) ==
    IF Len(text) = 0 THEN <<>>
    ELSE (IF Head(text) = " " THEN <<>> ELSE <<Head(text)>>) \o NonBlank(Tail(text))

RECURSIVE Glyphs(_)
Glyphs(ops) ==
    IF Len(ops) = 0 THEN <<>> ELSE NonBlank(Head(ops).text) \o Glyphs(Tail(ops))

C4_UnparsableSourceThrows ==
    (composed.kind # "none" /\ pdfData.kind # "pdf") =>
        composed.threw /\ composed.bytes = NoBytes

C4_Witness ==
    /\ composed.kind = "preview"
    /\ pdfData.kind = "corrupt"
    /\ Len(elements) = 2
    /\ \A k \in 1..2 : WellFormed(elements[k])
    /\ composed.threw

BoldFonts == {"TimesRomanBold", "TimesRomanBoldItalic", "CourierBold",
              "CourierBoldOblique", "HelveticaBold", "HelveticaBoldOblique"}
ItalicFonts == {"TimesRomanItalic", "TimesRomanBoldItalic", "CourierOblique",
                "CourierBoldOblique", "HelveticaOblique", "HelveticaBoldOblique"}

\* C8: the font an element is drawn in is a bold one exactly when its
\* fontWeight is at least 600 or its bold flag is set, and an italic one
\* exactly when its fontStyle is italic or oblique or its italic flag is set.
C8_BoldAndItalicAreDisjunctions ==
    ComposedOk =>
        \A p \in 1..Len(pdfData.pages) :
            \A j \in 1..Len(composed.bytes.pages[p].texts) :
                LET t == composed.bytes.pages[p].texts[j]
                    e == elements[t.el]
                IN  /\ t.font \in BoldFonts <=>
                           \/ IsDefined(e.fontWeight) /\ Val(e.fontWeight) >= 600
                           \/ e.bold
                    /\ t.font \in ItalicFonts <=>
                           \/ IsDefined(e.fontStyle)
                              /\ Val(e.fontStyle) \in {"italic", "oblique"}
                           \/ e.italic

\* the decoration C9 names: the explicit textDecoration when there is one,
\* else the legacy underline flag
NamedDecoration(e) ==
    IF IsDefined(e.textDecoration) THEN Val(e.textDecoration)
    ELSE IF e.underline THEN "underline" ELSE "none"

\* characters * fontSize * family ratio (0.6 Courier, 0.5 Times, 0.55 else)
NamedWidth(e) ==
    Len(processedContent(e)) * e.fontSize *
        (IF e.fontFamily = "Courier New" THEN (60 * Unit) \div 100
         ELSE IF e.fontFamily = "Times New Roman" THEN (50 * Unit) \div 100
         ELSE (55 * Unit) \div 100)

\* C9: a drawn element has no line when its decoration is none, and else
\* one line, from drawX to drawX + the estimated text width, in the text's
\* colour and opacity, at drawY - 2 (underline), drawY + 0.3 * fontSize
\* (line-through) or drawY + fontSize (overline); the decoration is the
\* explicit textDecoration when set and else the legacy underline flag.
C9_DecorationLine ==
    ComposedOk =>
        \A k \in 1..Len(elements) :
            LET e == elements[k]
            IN  (WellFormed(e) /\ InRange(e) /\ OnPage(e)) =>
                    LET lines == LinesOf(k, e.pageNumber)
                        dX == Max(0, FlippedX(e))
                        dY == Max(0, FlippedY(e))
                        d == NamedDecoration(e)
                    IN  IF d = "none" THEN lines = <<>>
                        ELSE /\ Len(lines) = 1
                             /\ lines[1].startX = dX
                             /\ lines[1].endX = dX + NamedWidth(e)
                             /\ lines[1].startY = lines[1].endY
                             /\ lines[1].startY =
                                    (CASE d = "underline" -> dY - 2 * Unit
                                       [] d = "line-through" ->
                                              dY + (30 * e.fontSize * Unit) \div 100
                                       [] d = "overline" -> dY + e.fontSize * Unit)
                             /\ \A j \in 1..Len(TextsOf(k, e.pageNumber)) :
                                    LET t == TextsOf(k, e.pageNumber)[j]
                                    IN  lines[1].color = t.color
                                        /\ lines[1].opacity = t.opacity

\* an explicit overline beats a set underline flag, drawn half transparent
C9_Witness ==
    /\ ComposedOk
    /\ Len(elements) = 1
    /\ elements[1].textDecoration = Some("overline")
    /\ elements[1].underline
    /\ elements[1].opacity = Some(50)
    /\ Len(LinesOf(1, 1)) = 1
    /\ LinesOf(1, 1)[1].startY = TextsOf(1, 1)[1].y + elements[1].fontSize * Unit
    /\ LinesOf(1, 1)[1].opacity = 50

\* where the last drawn glyph of an element ends: the x of its last
\* page.drawText call plus the estimated width of what that call drew
GlyphEnd(e, ops) ==
    LET last == ops[Len(ops)]
    IN  last.x + (IF Spacing(e.letterSpacing) # 0
                  THEN estimateCharWidth(last.text[1], e.fontSize, e.fontFamily)
                  ELSE estimateTextWidth(last.text, e.fontSize, e.fontFamily))

\* C10: the decoration line of a drawn element ends where its last glyph
\* ends: its length is the total advance of the drawn text.
C10_DecorationSpansTheAdvance ==
    ComposedOk =>
        \A k \in 1..Len(elements) :
            LET e == elements[k]
            IN  (WellFormed(e) /\ InRange(e)) =>
                    LET lines == LinesOf(k, e.pageNumber)
                        ops == TextsOf(k, e.pageNumber)
                    IN  (Len(lines) = 1 /\ Len(ops) > 0) =>
                            lines[1].endX = GlyphEnd(e, ops)

(***************************************************************************)
(* The converter called on a pointer position, over a store of up to       *)
(* MaxManual elements and up to MaxItems text items of the PDF page, at    *)
(* the viewer's zoom levels 0.5, 1.2 and 3.                                *)
(***************************************************************************)
MaxManual == 2
MaxItems == 2

Scales == {5, 12, 30}

\* stored positions of manual elements (and their page)
ManualChoices ==
    {[x |-> 32 * Unit, y |-> 36 * Unit, pageNumber |-> 1],
     [x |-> 52 * Unit, y |-> 56 * Unit, pageNumber |-> 1],
     [x |-> 52 * Unit, y |-> 36 * Unit, pageNumber |-> 1],
     [x |-> 160 * Unit, y |-> 60 * Unit, pageNumber |-> 2]}

\* text items as extractTextContent stores them, some outside the page
ItemChoices ==
    {[x |-> 40 * Unit, y |-> 60 * Unit],
     [x |-> 60 * Unit, y |-> 40 * Unit],
     [x |-> 120 * Unit, y |-> 0 - 10 * Unit],
     [x |-> 630 * Unit, y |-> 810 * Unit]}

ScreenXs == {0 - 50, 40, 100, 160, 350, 2000}
ScreenYs == {0 - 50, 100, 160, 220, 500}

Stores ==
    UNION {{[k \in 1..n |-> newElement(ElementId(k), NewText, c[k].x, c[k].y,
                                       c[k].pageNumber, FALSE)] :
               c \in [1..n -> ManualChoices]} : n \in 0..MaxManual}

ItemLists == UNION {[1..n -> ItemChoices] : n \in 0..MaxItems}

InitConvert ==
    /\ IdleOverlay
    /\ pdfData = OnePagePdf
    /\ previewPdfData = NoBytes
    /\ numPages = 1
    /\ currentPage = 1
    /\ selectedElementId = NoSelection
    /\ isLoading = FALSE
    /\ isPreviewMode = FALSE
    /\ textElements \in Stores
    /\ nextId = Len(textElements) + 1
    /\ \/ /\ documentLoaded = TRUE
          /\ renderedPage = 1
          /\ scale \in Scales
          /\ pdfTextItems \in ItemLists
       \/ /\ documentLoaded = FALSE
          /\ renderedPage = 0
          /\ scale = 12
          /\ pdfTextItems = <<>>
    /\ pageDimensions = [width |-> Letter.width, height |-> Letter.height]
    /\ pageRect = [left |-> 40, top |-> 100]
    /\ extracting = {}
    /\ elements = <<>>
    /\ composed = NotComposed
    /\ conv = NoConv
    /\ rgb = NoRgb
    /\ adding = NoAdd
    /\ previewing = NoPreviewing
    /\ op = NoOp

\* screenToPdfCoordinates(screenX, screenY) is called, in the viewer with
\* line alignment and in the one without.  A call reads nothing an earlier
\* call wrote, so one call from each state gives every result.
Convert(screenX, screenY) ==
    /\ ~conv.called
    /\ conv' = [called |-> TRUE, screenX |-> screenX, screenY |-> screenY,
                plain |-> screenToPdfCoordinatesPlain(screenX, screenY, documentLoaded,
                              pageRect, scale, pageDimensions)]
               @@ screenToPdfCoordinates(screenX, screenY, documentLoaded, pageRect,
                      scale, pageDimensions, textElements, currentPage, pdfTextItems)
    /\ UNCHANGED <<pageVars, viewerVars, overlayVars, elements, composed, rgb, adding, previewing, op>>

NextConvert == \E screenX \in ScreenXs, screenY \in ScreenYs : Convert(screenX, screenY)

SpecConvert == InitConvert /\ [][NextConvert]_vars

(***************************************************************************)
(* Properties of the converter (SpecConvert).                              *)
(***************************************************************************)
\* C5: whatever the pointer position, the scale and the snap candidates,
\* the point returned lies on the page: 0 <= x <= pageWidth and
\* 0 <= y <= pageHeight (in both viewers).
C5_ResultIsOnThePage ==
    conv.called =>
        /\ 0 <= conv.x /\ conv.x <= pageDimensions.width
        /\ 0 <= conv.y /\ conv.y <= pageDimensions.height
        /\ 0 <= conv.plain.x /\ conv.plain.x <= pageDimensions.width
        /\ 0 <= conv.plain.y /\ conv.plain.y <= pageDimensions.height

\* a pointer left of the page and below it, snapped to an anchor under the
\* page's lower edge
C5_Witness ==
    /\ conv.called
    /\ conv.pdfX < 0 /\ conv.x = 0
    /\ conv.alignedY > pageDimensions.height /\ conv.y = pageDimensions.height
    /\ conv.alignedY # conv.pdfY

\* The snap candidates in candidate order: the manual elements of the
\* current page in store order, then the text items of the PDF page.  at is
\* the position a snap gives, cmp the value the distance is taken from.
Candidates ==
    LET manual == SelectSeq(textElements, LAMBDA el : el.pageNumber = currentPage)
    IN  [k \in 1..Len(manual) |->
            [atX |-> manual[k].x, cmpX |-> manual[k].x + 8 * Unit,
             atY |-> manual[k].y, cmpY |-> manual[k].y + 4 * Unit]]
        \o [k \in 1..Len(pdfTextItems) |->
            [atX |-> pdfTextItems[k].x, cmpX |-> pdfTextItems[k].x,
             atY |-> pdfTextItems[k].y, cmpY |-> pdfTextItems[k].y]]

DistX(k) == Abs(Candidates[k].cmpX - conv.pdfX)
DistY(k) == Abs(Candidates[k].cmpY - conv.pdfY)
NearestX(k) == \A j \in 1..Len(Candidates) : DistX(k) <= DistX(j)
NearestY(k) == \A j \in 1..Len(Candidates) : DistY(k) <= DistY(j)
Threshold == 20 * Unit

\* C6: each axis is decided on its own: the aligned coordinate is the
\* position of a candidate nearest to the raw coordinate when that distance
\* is at most 20 page units, and the raw coordinate otherwise; the raw
\* coordinate is (screen - page origin) / scale, and the point returned is
\* the aligned point brought back onto the page.
C6_SnapPerAxis ==
    (conv.called /\ documentLoaded) =>
        /\ conv.x = Max(0, Min(conv.alignedX, pageDimensions.width))
        /\ conv.y = Max(0, Min(conv.alignedY, pageDimensions.height))
        /\ conv.pdfX * scale = (conv.screenX - pageRect.left) * Unit * 10
        /\ conv.pdfY * scale = (conv.screenY - pageRect.top) * Unit * 10
        /\ IF \E k \in 1..Len(Candidates) : DistX(k) <= Threshold
           THEN \E k \in 1..Len(Candidates) :
                    NearestX(k) /\ conv.alignedX = Candidates[k].atX
           ELSE conv.alignedX = conv.pdfX
        /\ IF \E k \in 1..Len(Candidates) : DistY(k) <= Threshold
           THEN \E k \in 1..Len(Candidates) :
                    NearestY(k) /\ conv.alignedY = Candidates[k].atY
           ELSE conv.alignedY = conv.pdfY

\* X snaps to a manual element (its stored x), Y stays raw
C6_Witness ==
    /\ conv.called /\ documentLoaded
    /\ Len(pdfTextItems) = 0
    /\ \E k \in 1..Len(textElements) :
           /\ textElements[k].pageNumber = currentPage
           /\ conv.alignedX = textElements[k].x
           /\ conv.pdfX # textElements[k].x + 8 * Unit
    /\ conv.alignedX # conv.pdfX
    /\ conv.alignedY = conv.pdfY

\* C7: among the candidates nearest to the raw coordinate on an axis, the
\* first in candidate order is the one snapped to.
C7_FirstNearestWins ==
    (conv.called /\ documentLoaded) =>
        /\ \A k \in 1..Len(Candidates) :
               (NearestX(k) /\ DistX(k) <= Threshold
                /\ \A j \in 1..(k - 1) : ~NearestX(j))
                   => conv.alignedX = Candidates[k].atX
        /\ \A k \in 1..Len(Candidates) :
               (NearestY(k) /\ DistY(k) <= Threshold
                /\ \A j \in 1..(k - 1) : ~NearestY(j))
                   => conv.alignedY = Candidates[k].atY

\* a manual element and a later text item at the same distance on X, at
\* different positions: the manual element is snapped to
C7_Witness ==
    /\ conv.called /\ documentLoaded
    /\ \E k \in 1..Len(Candidates) : \E j \in (k + 1)..Len(Candidates) :
           /\ NearestX(k) /\ NearestX(j)
           /\ DistX(k) <= Threshold
           /\ Candidates[k].atX # Candidates[j].atX
           /\ Candidates[k].atX # Candidates[k].cmpX
           /\ conv.alignedX = Candidates[k].atX

(***************************************************************************)
(* The editor: Page (app/page.tsx), the PDFViewer with line alignment and  *)
(* the TextElement overlays.  At most MaxAdds elements are created, the    *)
(* pointer goes down on an overlay at most MaxDrags times and at most      *)
(* MaxNudges arrow keys are pressed.                                       *)
(***************************************************************************)
MaxAdds == 1
MaxDrags == 1
MaxNudges == 1

\* a Letter page with one line of text, and a smaller second page with a
\* blank item and a line of text
LetterWithText ==
    [width |-> 612 * Unit, height |-> 792 * Unit,
     items |-> << [str |-> <<"a">>, tx |-> 40 * Unit, ty |-> 732 * Unit] >>]
SmallWithText ==
    [width |-> 300 * Unit, height |-> 400 * Unit,
     items |-> << [str |-> <<" ">>, tx |-> 10 * Unit, ty |-> 10 * Unit],
                  [str |-> <<"m">>, tx |-> 60 * Unit, ty |-> 360 * Unit] >>]
FormPdf == [kind |-> "pdf", pages |-> <<LetterWithText, SmallWithText>>]
\* a one-page file, which can be uploaded over the two-page one
ShortPdf == [kind |-> "pdf", pages |-> <<LetterWithText>>]
Uploads == {FormPdf, ShortPdf}

PredefinedTexts == { <<"W", "i", "m">> }

\* clientX / clientY of the pointer events
Pointers == {[x |-> 112, y |-> 160], [x |-> 2000, y |-> 1500],
             [x |-> 0 - 50, y |-> 0 - 50]}
\* where the pointer goes down on an overlay
Grips == {[x |-> 100, y |-> 160]}
Keys == {"ArrowLeft", "ArrowRight", "ArrowUp", "ArrowDown"}

\* the bounding box of the .react-pdf__Page element
PageRect == [left |-> 40, top |-> 100]

Init ==
    /\ IdlePage
    /\ IdleOverlay
    /\ pdfData = NoPdf
    /\ scale = 12
    /\ pageDimensions = DefaultPageDimensions
    /\ pdfTextItems = <<>>
    /\ documentLoaded = FALSE
    /\ renderedPage = 0
    /\ pageRect = PageRect
    /\ extracting = {}
    /\ elements = <<>>
    /\ composed = NotComposed
    /\ conv = NoConv
    /\ rgb = NoRgb
    /\ adding = NoAdd
    /\ previewing = NoPreviewing
    /\ op = NoOp

\* Math.round
round(v) == ((v + Unit \div 2) \div Unit) * Unit

\* "const currentPageTextElements = textElements.filter(...)"
currentPageTextElements ==
    IF isPreviewMode THEN <<>>
    ELSE SelectSeq(textElements, LAMBDA el : el.pageNumber = currentPage)

\* the TextElement overlays that are mounted
Mounted(id) ==
    /\ pdfData.kind # "null"
    /\ \E k \in 1..Len(currentPageTextElements) : currentPageTextElements[k].id = id

ElementOf(id) == textElements[CHOOSE k \in 1..Len(textElements) : textElements[k].id = id]

handleFileUploadKeepMode(file) ==
    /\ pdfData' = file
    /\ previewPdfData' = NoBytes
    /\ textElements' = <<>>
    /\ selectedElementId' = NoSelection
    /\ currentPage' = 1
    /\ isLoading' = FALSE
    /\ UNCHANGED isPreviewMode

handleFileUploadKeepPreview(file) ==
    /\ pdfData' = file
    /\ textElements' = <<>>
    /\ selectedElementId' = NoSelection
    /\ currentPage' = 1
    /\ isLoading' = FALSE
    /\ UNCHANGED <<previewPdfData, isPreviewMode>>

\* handleFileUpload with a file of type application/pdf under 50MB.  The
\* viewer gets a new pdfData and loads the document again; the overlays of
\* the cleared store unmount.
handleFileUpload(file) ==
    /\ pdfData' = file
    /\ previewPdfData' = NoBytes
    /\ textElements' = <<>>
    /\ selectedElementId' = NoSelection
    /\ currentPage' = 1
    /\ isPreviewMode' = FALSE
    /\ isLoading' = FALSE

\* the Page's handleFileUpload and what the viewer does with the new file
HandleFileUpload(file) ==
    /\ handleFileUpload(file)
    /\ documentLoaded' = FALSE
    /\ renderedPage' = 0
    /\ pdfTextItems' = IF currentPage # 1 THEN <<>> ELSE pdfTextItems
    /\ drag' = NoDrag
    /\ edit' = NoEdit
    /\ UNCHANGED <<numPages, nextId, scale, pageDimensions, pageRect, extracting,
                   drags, nudges, callVars>>

\* handleDocumentLoadSuccess -> onNumPagesChange = setNumPages
HandleDocumentLoadSuccess ==
    /\ pdfData.kind = "pdf"
    /\ ~documentLoaded
    /\ documentLoaded' = TRUE
    /\ numPages' = Len(pdfData.pages)
    /\ UNCHANGED <<pdfData, previewPdfData, currentPage, textElements, selectedElementId,
                   isLoading, isPreviewMode, nextId, scale, pageDimensions, pdfTextItems,
                   renderedPage, pageRect, extracting, overlayVars, callVars>>

\* handlePageLoadSuccess: the page shown has loaded; extractTextContent is
\* started on it
HandlePageLoadSuccess ==
    /\ documentLoaded
    /\ currentPage <= Len(pdfData.pages)
    /\ renderedPage # currentPage
    /\ renderedPage' = currentPage
    /\ pageDimensions' = [width |-> pdfData.pages[currentPage].width,
                          height |-> pdfData.pages[currentPage].height]
    /\ extracting' = extracting \cup {pdfData.pages[currentPage]}
    /\ UNCHANGED <<pageVars, scale, pdfTextItems, documentLoaded, pageRect,
                   overlayVars, callVars>>

\* extractTextContent after "await page.getTextContent()"
textItems(page) ==
    LET kept == SelectSeq(page.items, LAMBDA item : Len(trim(item.str)) > 0)
    IN  [k \in 1..Len(kept) |-> [x |-> kept[k].tx, y |-> page.height - kept[k].ty]]

ExtractTextContent(page) ==
    /\ page \in extracting
    /\ extracting' = extracting \ {page}
    /\ pdfTextItems' = textItems(page)
    /\ UNCHANGED <<pageVars, scale, pageDimensions, documentLoaded, renderedPage,
                   pageRect, overlayVars, callVars>>

\* goToPreviousPage / goToNextPage -> onPageChange = setCurrentPage; the
\* effect on currentPage clears pdfTextItems, the overlays of the page left
\* unmount
GoToPage(page) ==
    /\ pdfData.kind # "null"
    /\ currentPage' = page
    /\ pdfTextItems' = <<>>
    /\ drag' = NoDrag
    /\ edit' = NoEdit
    /\ UNCHANGED <<pdfData, previewPdfData, numPages, textElements, selectedElementId,
                   isLoading, isPreviewMode, nextId, scale, pageDimensions,
                   documentLoaded, renderedPage, pageRect, extracting, drags, nudges,
                   callVars>>

GoToPreviousPage == currentPage > 1 /\ GoToPage(currentPage - 1)

GoToNextPage == currentPage < numPages /\ GoToPage(currentPage + 1)

\* addTextElementAtPosition(x, y, content, isPredefined)
prepended(prev, element) == <<element>> \o prev

\* "[...prev, newElement]"
appended(prev, element) == Append(prev, element)

addTextElementAtPosition(x, y, content, isPredefined) ==
    IF pdfData.kind = "null" \/ isPreviewMode
    THEN UNCHANGED <<textElements, selectedElementId, nextId>>
    ELSE /\ textElements' = appended(textElements,
                                newElement(ElementId(nextId), content, x, y,
                                           currentPage, isPredefined))
         /\ selectedElementId' = ElementId(nextId)
         /\ nextId' = nextId + 1

\* "positioned at center of PDF": the Page's own pageDimensions, which no
\* viewer ever reports back to, with 8 / scale and 4 / scale added
centerX == DefaultPageDimensions.width \div 2 + (8 * Unit * 10) \div 12
centerY == DefaultPageDimensions.height \div 2 + (4 * Unit * 10) \div 12

\* addTextElement (the Add Text button)
AddTextElement ==
    /\ nextId <= MaxAdds
    /\ addTextElementAtPosition(centerX, centerY, NewText, FALSE)
    /\ UNCHANGED <<pdfData, previewPdfData, numPages, currentPage, isLoading,
                   isPreviewMode, viewerVars, overlayVars, callVars>>

\* addPredefinedText (a click in the predefined-text panel)
AddPredefinedText(text) ==
    /\ nextId <= MaxAdds
    /\ addTextElementAtPosition(centerX, centerY, text, TRUE)
    /\ UNCHANGED <<pdfData, previewPdfData, numPages, currentPage, isLoading,
                   isPreviewMode, viewerVars, overlayVars, callVars>>

\* handleDropPredefinedText(text, screenX, screenY), from the drop zone
\* around the viewer
HandleDropPredefinedText(text, screenX, screenY) ==
    /\ nextId <= MaxAdds
    /\ pdfData.kind # "null"
    /\ ~isPreviewMode
    /\ LET d == dropPosition(screenX, screenY, documentLoaded, pageRect)
       IN  addTextElementAtPosition(d.x, d.y, text, TRUE)
    /\ UNCHANGED <<pdfData, previewPdfData, numPages, currentPage, isLoading,
                   isPreviewMode, viewerVars, overlayVars, callVars>>

\* handlePdfDoubleClick -> onAddTextAtPosition(x, y)
HandlePdfDoubleClick(screenX, screenY) ==
    /\ nextId <= MaxAdds
    /\ pdfData.kind # "null"
    /\ ~isPreviewMode
    /\ LET c == screenToPdfCoordinates(screenX, screenY, documentLoaded, pageRect,
                    scale, pageDimensions, currentPageTextElements, currentPage,
                    pdfTextItems)
       IN  addTextElementAtPosition(c.x, c.y, NewText, FALSE)
    /\ UNCHANGED <<pdfData, previewPdfData, numPages, currentPage, isLoading,
                   isPreviewMode, viewerVars, overlayVars, callVars>>

updateTextElementOthers(id, updates) ==
    IF isPreviewMode THEN textElements
    ELSE [k \in 1..Len(textElements) |->
             IF textElements[k].id # id
             THEN updates @@ textElements[k]
             ELSE textElements[k]]

updateTextElementAll(id, updates) ==
    IF isPreviewMode THEN textElements
    ELSE [k \in 1..Len(textElements) |-> updates @@ textElements[k]]

\* updateTextElement(id, updates): the store it sets.  updates is a record
\* of the fields to change; "{ ...element, ...updates }" takes a field from
\* updates when it is there.
updateTextElement(id, updates) ==
    IF isPreviewMode THEN textElements
    ELSE [k \in 1..Len(textElements) |->
             IF textElements[k].id = id
             THEN updates @@ textElements[k]
             ELSE textElements[k]]

deleteTextElementKeepSelection(id) ==
    IF isPreviewMode THEN UNCHANGED <<textElements, selectedElementId>>
    ELSE /\ textElements' = SelectSeq(textElements, LAMBDA el : el.id # id)
         /\ UNCHANGED selectedElementId

\* deleteTextElement(id)
deleteTextElement(id) ==
    IF isPreviewMode THEN UNCHANGED <<textElements, selectedElementId>>
    ELSE /\ textElements' = SelectSeq(textElements, LAMBDA el : el.id # id)
         /\ selectedElementId' = IF selectedElementId = id THEN NoSelection
                                 ELSE selectedElementId

\* selectTextElement(id)
selectTextElement(id) ==
    IF isPreviewMode THEN UNCHANGED selectedElementId ELSE selectedElementId' = id

\* selectTextElement(id), from a click on an overlay or (null) on the
\* container
SelectTextElement(id) ==
    /\ pdfData.kind # "null"
    /\ id = NoSelection \/ Mounted(id)
    /\ ~isPreviewMode
    /\ selectTextElement(id)
    /\ UNCHANGED <<pdfData, previewPdfData, numPages, currentPage, textElements,
                   isLoading, isPreviewMode, nextId, viewerVars, overlayVars, callVars>>

\* deleteTextElement(id) of the selected element, from the controls
DeleteTextElement(id) ==
    /\ id # NoSelection
    /\ selectedElementId = id
    /\ ~isPreviewMode
    /\ deleteTextElement(id)
    /\ drag' = IF drag.id = id THEN NoDrag ELSE drag
    /\ edit' = IF edit.id = id THEN NoEdit ELSE edit
    /\ UNCHANGED <<pdfData, previewPdfData, numPages, currentPage, isLoading,
                   isPreviewMode, nextId, viewerVars, drags, nudges, callVars>>

\* TextElement.handleMouseDown
HandleMouseDown(id, clientX, clientY) ==
    /\ drags < MaxDrags
    /\ Mounted(id)
    \* "onMouseDown={isEditing ? undefined : handleMouseDown}"; a mousedown
    \* on another overlay is first the click away that ends the edit
    /\ edit.id = NoEdit.id
    /\ ~isPreviewMode
    /\ drag.phase = "idle"
    /\ drag' = [phase |-> "down", id |-> id, startX |-> clientX, startY |-> clientY,
                initialX |-> ElementOf(id).x, initialY |-> ElementOf(id).y]
    /\ selectedElementId' = id
    /\ drags' = drags + 1
    /\ UNCHANGED <<pdfData, previewPdfData, numPages, currentPage, textElements,
                   isLoading, isPreviewMode, nextId, viewerVars, nudges, edit, callVars>>

\* the mousemove listener of handleMouseDown: "Only start dragging if mouse
\* moved more than 5 pixels"
DragStart(clientX, clientY) ==
    /\ drag.phase = "down"
    /\ LET deltaX == Abs(clientX - drag.startX)
           deltaY == Abs(clientY - drag.startY)
       IN  deltaX * deltaX + deltaY * deltaY > 5 * 5
    /\ drag' = [drag EXCEPT !.phase = "dragging"]
    /\ UNCHANGED <<pageVars, viewerVars, drags, nudges, edit, callVars>>

HandleMouseMoveRelative(clientX, clientY) ==
    /\ drag.phase = "dragging"
    /\ ~isPreviewMode
    /\ LET newX == ElementOf(drag.id).x + ToPdf(clientX - drag.startX, scale)
           newY == ElementOf(drag.id).y + ToPdf(clientY - drag.startY, scale)
           padding == 5 * Unit
           constrainedX == Max(padding, Min(newX, pageDimensions.width - padding))
           constrainedY == Max(padding, Min(newY, pageDimensions.height - padding))
       IN  textElements' = updateTextElement(drag.id, [x |-> round(constrainedX),
                                                       y |-> round(constrainedY)])
    /\ UNCHANGED <<pdfData, previewPdfData, numPages, currentPage, selectedElementId,
                   isLoading, isPreviewMode, nextId, viewerVars, overlayVars, callVars>>

\* the mousemove listener of the drag effect
HandleMouseMove(clientX, clientY) ==
    /\ drag.phase = "dragging"
    /\ ~isPreviewMode
    /\ LET newX == drag.initialX + ToPdf(clientX - drag.startX, scale)
           newY == drag.initialY + ToPdf(clientY - drag.startY, scale)
           padding == 5 * Unit
           constrainedX == Max(padding, Min(newX, pageDimensions.width - padding))
           constrainedY == Max(padding, Min(newY, pageDimensions.height - padding))
       IN  textElements' = updateTextElement(drag.id, [x |-> round(constrainedX),
                                                       y |-> round(constrainedY)])
    /\ UNCHANGED <<pdfData, previewPdfData, numPages, currentPage, selectedElementId,
                   isLoading, isPreviewMode, nextId, viewerVars, overlayVars, callVars>>

\* the mouseup listeners
HandleMouseUp ==
    /\ drag.phase # "idle"
    /\ drag' = NoDrag
    /\ UNCHANGED <<pageVars, viewerVars, drags, nudges, edit, callVars>>

\* the keydown listener of the selected, focused overlay
HandleKeyDown(key) ==
    /\ nudges < MaxNudges
    /\ selectedElementId # NoSelection
    /\ Mounted(selectedElementId)
    \* "if (!isSelected || isEditing || isPreviewMode) return", and the
    \* focused input of an overlay in edit mode stops the others
    /\ edit.id = NoEdit.id
    /\ ~isPreviewMode
    /\ LET element == ElementOf(selectedElementId)
           adjustment == Unit \div 2
           newX == CASE key = "ArrowLeft" -> Max(0, element.x - adjustment)
                     [] key = "ArrowRight" ->
                            Min(pageDimensions.width - 20 * Unit, element.x + adjustment)
                     [] OTHER -> element.x
           newY == CASE key = "ArrowUp" -> Max(0, element.y - adjustment)
                     [] key = "ArrowDown" ->
                            Min(pageDimensions.height - 20 * Unit, element.y + adjustment)
                     [] OTHER -> element.y
       IN  textElements' = IF newX # element.x \/ newY # element.y
                           THEN updateTextElement(element.id, [x |-> newX, y |-> newY])
                           ELSE textElements
    /\ nudges' = nudges + 1
    /\ UNCHANGED <<pdfData, previewPdfData, numPages, currentPage, selectedElementId,
                   isLoading, isPreviewMode, nextId, viewerVars, drag, drags, edit, callVars>>

Next ==
    \/ \E file \in Uploads : HandleFileUpload(file)
    \/ HandleDocumentLoadSuccess
    \/ HandlePageLoadSuccess
    \/ \E page \in extracting : ExtractTextContent(page)
    \/ GoToPreviousPage
    \/ GoToNextPage
    \/ AddTextElement
    \/ \E text \in PredefinedTexts : AddPredefinedText(text)
    \/ \E text \in PredefinedTexts, p \in Pointers : HandleDropPredefinedText(text, p.x, p.y)
    \/ \E p \in Pointers : HandlePdfDoubleClick(p.x, p.y)
    \/ \E k \in 0..MaxAdds : SelectTextElement(IF k = 0 THEN NoSelection ELSE ElementId(k))
    \/ \E k \in 1..MaxAdds : DeleteTextElement(ElementId(k))
    \/ \E k \in 1..MaxAdds, p \in Grips : HandleMouseDown(ElementId(k), p.x, p.y)
    \/ \E p \in Pointers : DragStart(p.x, p.y)
    \/ \E p \in Pointers : HandleMouseMove(p.x, p.y)
    \/ HandleMouseUp
    \/ \E key \in Keys : HandleKeyDown(key)

Spec == Init /\ [][Next]_vars

(***************************************************************************)
(* Properties of the editor (Spec).                                        *)
(***************************************************************************)
PageOf(el) == pdfData.pages[el.pageNumber]

\* C1: every element of the store lies on the page it was placed on:
\* 0 <= x <= pageWidth and 0 <= y <= pageHeight.
C1_StoredPositionsOnThePage ==
    \A k \in 1..Len(textElements) :
        LET el == textElements[k]
        IN  el.pageNumber <= Len(pdfData.pages) =>
                /\ 0 <= el.x /\ el.x <= PageOf(el).width
                /\ 0 <= el.y /\ el.y <= PageOf(el).height

(***************************************************************************)
(* Properties of the compositor (SpecCompose), continued.                  *)
(***************************************************************************)
\* the transform as stated: capitalize touches only the first character of
\* each space-separated word
StatedCapitalize(s) ==
    [k \in 1..Len(s) |->
        IF k = 1 \/ s[k - 1] = " " THEN toUpperCase(s[k]) ELSE s[k]]

StatedTransform(e) ==
    IF e.textTransform = Some("uppercase") THEN [k \in 1..Len(e.content) |-> toUpperCase(e.content[k])]
    ELSE IF e.textTransform = Some("lowercase") THEN [k \in 1..Len(e.content) |-> toLowerCase(e.content[k])]
    ELSE IF e.textTransform = Some("capitalize") THEN StatedCapitalize(e.content)
    ELSE e.content

\* C11: the characters drawn for an element are those of its content after
\* the transform: all upper-cased, all lower-cased, the first letter of each
\* word upper-cased and the others left as they are, or unchanged.
C11_TransformedOnce ==
    ComposedOk =>
        \A k \in 1..Len(elements) :
            LET e == elements[k]
            IN  (WellFormed(e) /\ InRange(e)) =>
                    Glyphs(TextsOf(k, e.pageNumber)) = NonBlank(StatedTransform(e))

(***************************************************************************)
(* hexToRgb called on a string: an optional "#" and up to MaxHexLen        *)
(* characters, hexadecimal digits or not.                                  *)
(***************************************************************************)
MaxHexLen == 6

HexChars == {"0", "8", "f", "z"}

HexStrings ==
    UNION {{h, <<"#">> \o h} : h \in UNION {[1..n -> HexChars] : n \in 0..MaxHexLen}}

InitColour ==
    /\ IdlePage
    /\ IdleViewer
    /\ IdleOverlay
    /\ pdfData = NoPdf
    /\ elements = <<>>
    /\ composed = NotComposed
    /\ conv = NoConv
    /\ rgb \in {[NoRgb EXCEPT !.hex = hex] : hex \in HexStrings}
    /\ adding = NoAdd
    /\ previewing = NoPreviewing
    /\ op = NoOp

\* "const color = hexToRgb(element.color)"
HexToRgb ==
    /\ ~rgb.called
    /\ rgb' = [called |-> TRUE, hex |-> rgb.hex] @@ hexToRgb(rgb.hex)
    /\ UNCHANGED <<pageVars, viewerVars, overlayVars, elements, composed, conv, adding, previewing, op>>

NextColour == HexToRgb

SpecColour == InitColour /\ [][NextColour]_vars

(***************************************************************************)
(* Properties of hexToRgb (SpecColour).  A channel is a byte here; the     *)
(* compositor divides it by 255, so 255 is the 1 of the RGB triple.        *)
(***************************************************************************)
Digits(hex) == IF Len(hex) > 0 /\ hex[1] = "#" THEN Tail(hex) ELSE hex

AllHex(body) == \A k \in 1..Len(body) : HexVal(body[k]) >= 0

Byte(hi, lo) == 16 * HexVal(hi) + HexVal(lo)

\* C12: three hexadecimal digits give the triple of the six digits that
\* double each of them; six hexadecimal digits give their three bytes; a
\* string of any other length, or with a character that is not a
\* hexadecimal digit, or empty, gives black.
C12_TotalColourConversion ==
    rgb.called =>
        LET body == Digits(rgb.hex)
        IN  IF AllHex(body) /\ Len(body) = 3
            THEN /\ rgb.r = Byte(body[1], body[1])
                 /\ rgb.g = Byte(body[2], body[2])
                 /\ rgb.b = Byte(body[3], body[3])
            ELSE IF AllHex(body) /\ Len(body) = 6
            THEN /\ rgb.r = Byte(body[1], body[2])
                 /\ rgb.g = Byte(body[3], body[4])
                 /\ rgb.b = Byte(body[5], body[6])
            ELSE rgb.r = 0 /\ rgb.g = 0 /\ rgb.b = 0

\* a colour string that is no 3- or 6-digit hex colour
Malformed(color) ==
    ~(AllHex(Digits(color)) /\ Len(Digits(color)) \in {3, 6})

\* C13: an element that is valid but for its colour string, empty or
\* malformed, on a page of the document, has its text drawn, in black.
C13_MalformedColourDrawnBlack ==
    ComposedOk =>
        \A k \in 1..Len(elements) :
            LET e == elements[k]
            IN  (WellFormed([e EXCEPT !.color = BlackHex]) /\ InRange(e)
                 /\ Malformed(e.color)) =>
                    /\ TextsOf(k, e.pageNumber) # <<>>
                    /\ \A j \in 1..Len(TextsOf(k, e.pageNumber)) :
                           TextsOf(k, e.pageNumber)[j].color = Black

\* the scenario: a 612 x 792 page and the one element
\* { x: 100, y: 100, fontSize: 12, content: "Hello" } on page 1
HelloOnLetter ==
    /\ ComposedOk
    /\ Len(pdfData.pages) >= 1
    /\ pdfData.pages[1].width = 612 * Unit /\ pdfData.pages[1].height = 792 * Unit
    /\ Len(elements) = 1
    /\ elements[1].content = <<"H", "e", "l", "l", "o">>
    /\ elements[1].x = 100 * Unit /\ elements[1].y = 100 * Unit
    /\ elements[1].fontSize = 12 /\ elements[1].pageNumber = 1

\* C14 as stated: the scenario's glyph origin is x = 99.6, y = 611.8.
C14_OriginAt996And6118 ==
    HelloOnLetter =>
        /\ Len(TextsOf(1, 1)) = 1
        /\ TextsOf(1, 1)[1].x = (996 * Unit) \div 10
        /\ TextsOf(1, 1)[1].y = (6118 * Unit) \div 10

\* C14: the scenario's text "Hello" is drawn once, with its origin at
\* x = 99.9 (100 - 0.1) and y = 677.8 (792 - 100 - 12 * 0.85 - 4).
C14_OriginAt999And6778 ==
    HelloOnLetter =>
        /\ Len(TextsOf(1, 1)) = 1
        /\ TextsOf(1, 1)[1].text = <<"H", "e", "l", "l", "o">>
        /\ TextsOf(1, 1)[1].x = (999 * Unit) \div 10
        /\ TextsOf(1, 1)[1].y = (6778 * Unit) \div 10

C14_Witness == HelloOnLetter /\ composed.kind = "download" /\ TextsOf(1, 1) # <<>>

(***************************************************************************)
(* SpecStore: the Page's store of text elements under the calls that reach *)
(* it: add, update, delete, select, the preview toggle and an upload.  A   *)
(* store operation that has returned is recorded in op with the store and  *)
(* the selection it started from, and the behaviour ends there; the calls  *)
(* that only change the mode (the preview toggle) are not recorded.        *)
(***************************************************************************)
AbsentId == "text-absent"
StoreIds == {ElementId(1), ElementId(2), AbsentId}

\* Partial<TextElement>: the empty patch, a move, a retype, a format change
Patches ==
    {[f \in {} |-> 0],
     [x |-> 70 * Unit, y |-> 80 * Unit],
     [content |-> <<"a", "i">>],
     [bold |-> TRUE]}

InitStore ==
    /\ IdleViewer
    /\ IdleOverlay
    /\ pdfData \in {NoPdf, TwoPagePdf}
    /\ previewPdfData = NoBytes
    /\ numPages = IF pdfData.kind = "null" THEN 0 ELSE 2
    /\ currentPage \in IF pdfData.kind = "null" THEN {1} ELSE {1, 2}
    /\ textElements \in IF pdfData.kind = "null" THEN {<<>>} ELSE Stores
    /\ selectedElementId \in {NoSelection} \cup {textElements[k].id : k \in 1..Len(textElements)}
    /\ isLoading = FALSE
    /\ isPreviewMode = FALSE
    /\ nextId = Len(textElements) + 1
    /\ elements = <<>>
    /\ composed = NotComposed
    /\ conv = NoConv
    /\ rgb = NoRgb
    /\ adding = NoAdd
    /\ previewing = NoPreviewing
    /\ op = NoOp

\* what op records of a call that returns in this step
Returned(kind, id, updates) ==
    [kind |-> kind, id |-> id, updates |-> updates, before |-> textElements,
     selected |-> selectedElementId, preview |-> isPreviewMode, threw |-> FALSE]

\* addTextElementAtPosition up to "await analyzePDFForDefaultFont(...)"
StoreAddStart(x, y, content, isPredefined) ==
    /\ op.kind = "none"
    /\ ~adding.pending
    /\ IF pdfData.kind = "null" \/ isPreviewMode
       THEN /\ op' = Returned("add", NoSelection, <<>>)
            /\ UNCHANGED adding
       ELSE /\ adding' = [pending |-> TRUE, x |-> x, y |-> y, content |-> content,
                          isPredefined |-> isPredefined, pageNumber |-> currentPage]
            /\ UNCHANGED op
    /\ UNCHANGED <<pageVars, viewerVars, overlayVars, elements, composed, conv, rgb,
                   previewing>>

\* addTextElementAtPosition from the await on
StoreAddComplete ==
    /\ op.kind = "none"
    /\ adding.pending
    /\ textElements' = appended(textElements,
                           newElement(ElementId(nextId), adding.content, adding.x,
                                      adding.y, adding.pageNumber, adding.isPredefined))
    /\ selectedElementId' = ElementId(nextId)
    /\ nextId' = nextId + 1
    /\ adding' = NoAdd
    /\ op' = Returned("add", ElementId(nextId), <<>>)
    /\ UNCHANGED <<pdfData, previewPdfData, numPages, currentPage, isLoading,
                   isPreviewMode, viewerVars, overlayVars, elements, composed, conv,
                   rgb, previewing>>

StoreUpdate(id, updates) ==
    /\ op.kind = "none"
    /\ textElements' = updateTextElement(id, updates)
    /\ op' = Returned("update", id, updates)
    /\ UNCHANGED <<pdfData, previewPdfData, numPages, currentPage, selectedElementId,
                   isLoading, isPreviewMode, nextId, viewerVars, overlayVars, elements,
                   composed, conv, rgb, adding, previewing>>

StoreDelete(id) ==
    /\ op.kind = "none"
    /\ deleteTextElement(id)
    /\ op' = Returned("delete", id, <<>>)
    /\ UNCHANGED <<pdfData, previewPdfData, numPages, currentPage, isLoading,
                   isPreviewMode, nextId, viewerVars, overlayVars, elements, composed,
                   conv, rgb, adding, previewing>>

StoreSelect(id) ==
    /\ op.kind = "none"
    /\ selectTextElement(id)
    /\ op' = Returned("select", id, <<>>)
    /\ UNCHANGED <<pdfData, previewPdfData, numPages, currentPage, textElements,
                   isLoading, isPreviewMode, nextId, viewerVars, overlayVars, elements,
                   composed, conv, rgb, adding, previewing>>

MaxPreviews == 2

\* the runs in flight are told apart by a number: the timer id that
\* setTimeout returns, the lowest one that is free
Running(run) == \E k \in 1..Len(previewing) : previewing[k].run = run
FreeRun == CHOOSE run \in 1..MaxPreviews :
               ~Running(run) /\ \A lower \in 1..(run - 1) : Running(lower)

\* handlePreview up to "setTimeout(async () => { ... }, 100)"
handlePreview ==
    IF pdfData.kind = "null"
    THEN UNCHANGED <<isPreviewMode, previewPdfData, selectedElementId, isLoading,
                     previewing>>
    ELSE IF isPreviewMode
    THEN /\ isPreviewMode' = FALSE
         /\ previewPdfData' = NoBytes
         /\ selectedElementId' = NoSelection
         /\ UNCHANGED <<isLoading, previewing>>
    ELSE /\ isLoading' = TRUE
         /\ previewing' = Append(previewing, [run |-> FreeRun, pdfData |-> pdfData,
                                              textElements |-> textElements])
         /\ UNCHANGED <<isPreviewMode, previewPdfData, selectedElementId>>

\* the Preview button of Controls: "onClick={onPreview} disabled={isLoading}"
HandlePreview ==
    /\ op.kind = "none"
    /\ pdfData.kind # "null"
    /\ ~isLoading
    /\ Len(previewing) < MaxPreviews
    /\ handlePreview
    /\ UNCHANGED <<pdfData, numPages, currentPage, textElements, nextId, viewerVars,
                   overlayVars, elements, composed, conv, rgb, adding, op>>

\* handleKeyPress of the Page: Ctrl/Cmd + P, with no input focused
HandlePreviewShortcut ==
    /\ op.kind = "none"
    /\ pdfData.kind # "null"
    /\ edit.id = NoEdit.id
    /\ Len(previewing) < MaxPreviews
    /\ handlePreview
    /\ UNCHANGED <<pdfData, numPages, currentPage, textElements, nextId, viewerVars,
                   overlayVars, elements, composed, conv, rgb, adding, op>>

PreviewTimeoutStillLoading ==
    /\ op.kind = "none"
    /\ previewing # <<>>
    /\ previewPdfData' =
           previewPDFWithText(Head(previewing).pdfData, Head(previewing).textElements).bytes
    /\ isPreviewMode' = previewPdfData'.ok
    /\ selectedElementId' = IF previewPdfData'.ok THEN NoSelection
                            ELSE selectedElementId
    /\ previewing' = Tail(previewing)
    /\ UNCHANGED <<pdfData, numPages, currentPage, textElements, nextId, viewerVars,
                   overlayVars, elements, composed, conv, rgb, adding, op, isLoading>>

\* the timer of the oldest run fires and the run finishes: the preview is
\* composed from the pdfData and the textElements the callback closed over
PreviewTimeout ==
    /\ op.kind = "none"
    /\ previewing # <<>>
    \* try: the bytes, preview mode on, selection cleared;
    \* catch: no bytes (NoBytes is what a call that threw leaves), mode off
    /\ previewPdfData' =
           previewPDFWithText(Head(previewing).pdfData, Head(previewing).textElements).bytes
    /\ isPreviewMode' = previewPdfData'.ok
    /\ selectedElementId' = IF previewPdfData'.ok THEN NoSelection
                            ELSE selectedElementId
    /\ isLoading' = FALSE
    /\ previewing' = Tail(previewing)
    /\ UNCHANGED <<pdfData, numPages, currentPage, textElements, nextId, viewerVars,
                   overlayVars, elements, composed, conv, rgb, adding, op>>

\* handleFileUpload of a file that passes the type and size checks
StoreUpload(file) ==
    /\ op.kind = "none"
    /\ handleFileUpload(file)
    /\ op' = Returned("upload", NoSelection, <<>>)
    /\ UNCHANGED <<numPages, nextId, viewerVars, overlayVars, elements, composed, conv,
                   rgb, adding, previewing>>

NextStore ==
    \/ \E isPredefined \in BOOLEAN :
           StoreAddStart(100 * Unit, 100 * Unit, NewText, isPredefined)
    \/ StoreAddComplete
    \/ \E id \in StoreIds, updates \in Patches : StoreUpdate(id, updates)
    \/ \E id \in StoreIds : StoreDelete(id)
    \/ \E id \in StoreIds \cup {NoSelection} : StoreSelect(id)
    \/ HandlePreview
    \/ PreviewTimeout
    \/ \E file \in Uploads : StoreUpload(file)

SpecStore == InitStore /\ [][NextStore]_vars

(***************************************************************************)
(* Properties of the store operations (SpecStore).                         *)
(***************************************************************************)
IdsOf(store) == {store[k].id : k \in 1..Len(store)}

\* store without its k-th element
Without(store, k) == SubSeq(store, 1, k - 1) \o SubSeq(store, k + 1, Len(store))

\* C15: an update with the empty patch leaves the whole store as it was, an
\* update or a delete with an id that is not in the store leaves the store,
\* contents and order, as it was, and neither throws.
C15_NoOpCallsLeaveTheStore ==
    /\ op.kind = "update" /\ DOMAIN op.updates = {} => textElements = op.before
    /\ op.kind \in {"update", "delete"} /\ op.id \notin IdsOf(op.before)
           => textElements = op.before
    /\ op.kind \in {"update", "delete"} => ~op.threw

\* an update with a patch that is not empty, for an id the store of two
\* elements does not hold, has returned while editing
C15_Witness ==
    /\ op.kind = "update"
    /\ ~op.preview
    /\ DOMAIN op.updates # {}
    /\ op.id \notin IdsOf(op.before)
    /\ Len(op.before) = 2

C17_DeleteRemovesOne ==
    op.kind = "delete" /\ ~op.preview =>
        /\ \A k \in 1..Len(op.before) :
               op.before[k].id = op.id => textElements = Without(op.before, k)
        /\ selectedElementId = IF op.selected = op.id THEN NoSelection
                               ELSE op.selected

\* the first of two elements was deleted while it was the selected one
C17_Witness ==
    /\ op.kind = "delete"
    /\ ~op.preview
    /\ Len(op.before) = 2
    /\ op.before[1].id = op.id
    /\ op.selected = op.id

\* C18: a store request that returns while preview mode is on leaves the
\* elements and the selection as they were, also when it was issued before
\* preview mode was entered.
C18_ReadOnlyInPreview ==
    op.kind \in {"add", "update", "delete", "select"} /\ op.preview =>
        /\ textElements = op.before
        /\ selectedElementId = op.selected

\* C19: right after an upload went through the store is empty, nothing is
\* selected, the current page is 1, preview mode is off and no preview is
\* held.
C19_UploadClears ==
    op.kind = "upload" =>
        /\ textElements = <<>>
        /\ selectedElementId = NoSelection
        /\ currentPage = 1
        /\ ~isPreviewMode
        /\ previewPdfData = NoBytes

\* a file was uploaded over a preview of a store of two elements on page 2
C19_Witness ==
    /\ op.kind = "upload"
    /\ op.preview
    /\ Len(op.before) = 2
    /\ numPages = 2
    /\ pdfData \in Uploads

(***************************************************************************)
(* SpecEdit: the edit mode of the overlays.  The document is loaded and    *)
(* rendered and the store holds a predefined element, alone or with a      *)
(* regular one; the overlays are double-clicked, typed into, saved with    *)
(* Enter, Escape or a click away, dragged, nudged and made bold.  op is    *)
(* the last edit-mode handler that ran and the overlay it ran on.          *)
(***************************************************************************)
PredefinedText == <<"W", "i", "m">>

\* e.target.value of the input's onChange
EditValues == {<<>>, <<" ">>, <<"a", "i">>, <<" ", "m", " ">>}

EditStores ==
    LET predefined == newElement(ElementId(1), PredefinedText, 100 * Unit, 100 * Unit,
                                 1, TRUE)
        regular == newElement(ElementId(2), NewText, 52 * Unit, 56 * Unit, 1, FALSE)
    IN  {<<predefined>>, <<predefined, regular>>}

InitEdit ==
    /\ IdleOverlay
    /\ pdfData = OnePagePdf
    /\ previewPdfData = NoBytes
    /\ numPages = 1
    /\ currentPage = 1
    /\ textElements \in EditStores
    /\ selectedElementId = NoSelection
    /\ isLoading = FALSE
    /\ isPreviewMode = FALSE
    /\ nextId = 3
    /\ scale = 12
    /\ pageDimensions = [width |-> Letter.width, height |-> Letter.height]
    /\ pdfTextItems = <<>>
    /\ documentLoaded = TRUE
    /\ renderedPage = 1
    /\ pageRect = PageRect
    /\ extracting = {}
    /\ elements = <<>>
    /\ composed = NotComposed
    /\ conv = NoConv
    /\ rgb = NoRgb
    /\ adding = NoAdd
    /\ previewing = NoPreviewing
    /\ op = NoOp

\* TextElement.handleDoubleClick
HandleDoubleClick(id) ==
    /\ Mounted(id)
    \* "onDoubleClick={isEditing ? undefined : handleDoubleClick}"; the
    \* mousedown of a double click on another overlay is first a click away
    /\ edit.id = NoEdit.id
    /\ IF isPreviewMode \/ ElementOf(id).isPredefined
       THEN UNCHANGED <<drag, edit>>
       ELSE /\ drag' = NoDrag
            /\ edit' = [id |-> id, editValue |-> ElementOf(id).content]
    /\ op' = [NoOp EXCEPT !.kind = "doubleClick", !.id = id]
    /\ UNCHANGED <<pageVars, viewerVars, drags, nudges, elements, composed, conv, rgb,
                   adding, previewing>>

\* onChange of the input an overlay in edit mode renders
HandleInputChange(value) ==
    /\ edit.id # NoEdit.id
    /\ ~ElementOf(edit.id).isPredefined
    /\ edit' = [edit EXCEPT !.editValue = value]
    /\ op' = [NoOp EXCEPT !.kind = "change", !.id = edit.id]
    /\ UNCHANGED <<pageVars, viewerVars, drag, drags, nudges, elements, composed, conv,
                   rgb, adding, previewing>>

\* TextElement.handleEditSave: the store it sets
handleEditSave ==
    IF Len(trim(edit.editValue)) > 0 /\ ~ElementOf(edit.id).isPredefined
    THEN updateTextElement(edit.id, [content |-> trim(edit.editValue)])
    ELSE textElements

\* handleKeyPress of the input: Enter and Escape both save
HandleKeyPress(key) ==
    /\ edit.id # NoEdit.id
    /\ ~ElementOf(edit.id).isPredefined
    /\ key \in {"Enter", "Escape"}
    /\ textElements' = handleEditSave
    /\ edit' = NoEdit
    /\ op' = [NoOp EXCEPT !.kind = key, !.id = edit.id]
    /\ UNCHANGED <<pdfData, previewPdfData, numPages, currentPage, selectedElementId,
                   isLoading, isPreviewMode, nextId, viewerVars, drag, drags, nudges,
                   elements, composed, conv, rgb, adding, previewing>>

\* handleClickAway: a mousedown outside the overlay in edit mode
HandleClickAway ==
    /\ edit.id # NoEdit.id
    /\ textElements' = handleEditSave
    /\ edit' = NoEdit
    /\ op' = [NoOp EXCEPT !.kind = "clickAway", !.id = edit.id]
    /\ UNCHANGED <<pdfData, previewPdfData, numPages, currentPage, selectedElementId,
                   isLoading, isPreviewMode, nextId, viewerVars, drag, drags, nudges,
                   elements, composed, conv, rgb, adding, previewing>>

\* Controls.handleBoldToggle
HandleBoldToggle ==
    /\ selectedElementId # NoSelection
    /\ Mounted(selectedElementId)
    /\ textElements' = updateTextElement(selectedElementId,
                           [bold |-> ~ElementOf(selectedElementId).bold])
    /\ UNCHANGED <<pdfData, previewPdfData, numPages, currentPage, selectedElementId,
                   isLoading, isPreviewMode, nextId, viewerVars, overlayVars, callVars>>

NextEdit ==
    \/ \E id \in {ElementId(1), ElementId(2)} : HandleDoubleClick(id)
    \/ \E value \in EditValues : HandleInputChange(value)
    \/ \E key \in {"Enter", "Escape"} : HandleKeyPress(key)
    \/ HandleClickAway
    \/ HandleBoldToggle
    \/ \E id \in {ElementId(1), ElementId(2)}, p \in Grips : HandleMouseDown(id, p.x, p.y)
    \/ \E p \in Pointers : DragStart(p.x, p.y)
    \/ \E p \in Pointers : HandleMouseMove(p.x, p.y)
    \/ HandleMouseUp
    \/ \E key \in Keys : HandleKeyDown(key)

SpecEdit == InitEdit /\ [][NextEdit]_vars

(***************************************************************************)
(* Properties of the edit mode (SpecEdit).                                 *)
(***************************************************************************)
\* C20: whatever is double-clicked, typed and saved, an element with
\* isPredefined = true keeps the content it was added with.
C20_PredefinedContentKept ==
    \A k \in 1..Len(textElements) :
        textElements[k].isPredefined => textElements[k].content = PredefinedText

\* the predefined element was double-clicked after it had been moved and
\* made bold, next to a regular element that was retyped
C20_Witness ==
    /\ op.kind = "doubleClick"
    /\ op.id = ElementId(1)
    /\ Len(textElements) = 2
    /\ textElements[1].isPredefined
    /\ textElements[1].x # 100 * Unit
    /\ textElements[1].bold
    /\ textElements[2].content # NewText

(***************************************************************************)
(* Properties of the pages of the editor (Spec).                           *)
(***************************************************************************)
\* C21: in every state with a document, the current page is one of
\* 1..numPages and every stored element is on a page the loaded document
\* has.
C21_PagesExist ==
    pdfData.kind = "pdf" =>
        /\ currentPage \in 1..numPages
        /\ \A k \in 1..Len(textElements) :
               textElements[k].pageNumber \in 1..Len(pdfData.pages)

(***************************************************************************)
(* SpecPreview: the preview toggle next to the handlers that change the    *)
(* store.  A file is loaded, parsable or not; the Preview button and the   *)
(* Ctrl/Cmd + P shortcut start preview runs, the runs finish, and in       *)
(* between text is added, selected, made bold and deleted and files are    *)
(* uploaded.  SpecPreviewLive adds that a run whose timer is set finishes. *)
(***************************************************************************)
PreviewUploads == {OnePagePdf, CorruptPdf}

InitPreview ==
    /\ IdleOverlay
    /\ pdfData \in PreviewUploads
    /\ previewPdfData = NoBytes
    /\ numPages = 1
    /\ currentPage = 1
    /\ textElements = <<>>
    /\ selectedElementId = NoSelection
    /\ isLoading = FALSE
    /\ isPreviewMode = FALSE
    /\ nextId = 1
    /\ scale = 12
    /\ pageDimensions = DefaultPageDimensions
    /\ pdfTextItems = <<>>
    /\ documentLoaded = FALSE
    /\ renderedPage = 0
    /\ pageRect = PageRect
    /\ extracting = {}
    /\ elements = <<>>
    /\ composed = NotComposed
    /\ conv = NoConv
    /\ rgb = NoRgb
    /\ adding = NoAdd
    /\ previewing = NoPreviewing
    /\ op = NoOp

NextPreview ==
    \/ HandlePreview
    \/ HandlePreviewShortcut
    \/ PreviewTimeout
    \/ AddTextElement
    \/ \E id \in {NoSelection, ElementId(1)} : SelectTextElement(id)
    \/ DeleteTextElement(ElementId(1))
    \/ HandleBoldToggle
    \/ \E file \in PreviewUploads : HandleFileUpload(file)

SpecPreview == InitPreview /\ [][NextPreview]_vars

SpecPreviewLive == SpecPreview /\ WF_vars(PreviewTimeout)

(***************************************************************************)
(* Properties of the preview toggle (SpecPreview, SpecPreviewLive).        *)
(***************************************************************************)
\* C22: at most one preview run is in flight: a request made while one is
\* running starts no second one.
C22_OneRunAtATime == Len(previewing) <= 1

\* C26: while preview mode is on, the preview shown is the composition of
\* the loaded file with the elements the store holds.
C26_PreviewOfTheStore ==
    isPreviewMode => previewPdfData = previewPDFWithText(pdfData, textElements).bytes

\* C27: preview mode is on only while preview data is held.
C27_PreviewHasData == isPreviewMode => previewPdfData # NoBytes

\* a run that was started on a parsable file finished after a file that
\* cannot be parsed had been uploaded: preview mode is on, with the preview
\* of the earlier file
C27_Witness ==
    /\ isPreviewMode
    /\ pdfData = CorruptPdf
    /\ previewPdfData.ok
    /\ Len(previewPdfData.pages) = 1

\* C28: a preview run that has been started finishes; the step that
\* finishes it clears the loading flag and leaves preview mode on with
\* preview data and nothing selected when the file of the run could be
\* composed, and preview mode off without preview data when it could not.
C28_PreviewRunsFinish ==
    /\ \A run \in 1..MaxPreviews : Running(run) ~> ~Running(run)
    /\ [][Len(previewing') < Len(previewing) =>
             /\ ~isLoading'
             /\ IF Head(previewing).pdfData.kind = "pdf"
                THEN /\ isPreviewMode'
                     /\ previewPdfData' # NoBytes
                     /\ selectedElementId' = NoSelection
                ELSE /\ ~isPreviewMode'
                     /\ previewPdfData' = NoBytes]_vars

\* a run on a store of one element has finished: preview mode is on, the
\* preview holds the element and nothing is loading
C28_Witness ==
    /\ isPreviewMode
    /\ ~isLoading
    /\ previewing = <<>>
    /\ selectedElementId = NoSelection
    /\ previewPdfData.ok
    /\ Len(textElements) = 1
    /\ previewPdfData = previewPDFWithText(pdfData, textElements).bytes

(***************************************************************************)
(* Properties of the drag (Spec).                                          *)
(***************************************************************************)
\* where a pointer at (clientX, clientY) puts the element of the drag:
\* clamp(initial + delta / scale) rounded, from what mouse-down captured
DragTargetX(clientX) ==
    round(Max(5 * Unit, Min(drag.initialX + ToPdf(clientX - drag.startX, scale),
                            pageDimensions.width - 5 * Unit)))
DragTargetY(clientY) ==
    round(Max(5 * Unit, Min(drag.initialY + ToPdf(clientY - drag.startY, scale),
                            pageDimensions.height - 5 * Unit)))

\* C23: a step of a drag that moves the element puts it where one pointer
\* position puts it from the positions captured at mouse-down, the scale and
\* the page size, whatever the moves before it were.
C23_LastMoveWins ==
    [][/\ drag.phase = "dragging"
       /\ drag' = drag
       /\ nudges' = nudges
       /\ Mounted(drag.id)
       /\ \E k \in 1..Len(textElements') : textElements'[k].id = drag.id
       /\ <<ElementOf(drag.id).x, ElementOf(drag.id).y>>
              # <<ElementOf(drag.id).x, ElementOf(drag.id).y>>'
       => \E p \in Pointers :
              /\ ElementOf(drag.id).x' = DragTargetX(p.x)
              /\ ElementOf(drag.id).y' = DragTargetY(p.y)]_vars

\* in a drag, the element is where the pointer 12 px right of the grip puts
\* it, which is not where it was at mouse-down
C23_Witness ==
    /\ drag.phase = "dragging"
    /\ Mounted(drag.id)
    /\ ElementOf(drag.id).x = DragTargetX(112)
    /\ ElementOf(drag.id).y = DragTargetY(160)
    /\ ElementOf(drag.id).x = drag.initialX + 10 * Unit

(***************************************************************************)
(* The drop of a predefined text against the double-click (SpecConvert).   *)
(***************************************************************************)
\* C24: a predefined text dropped at the screen point of a call of
\* screenToPdfCoordinates is stored at the position a double-click at that
\* point is stored at (addTextElementAtPosition keeps both at 0 or more).
C24_DropLikeDoubleClick ==
    conv.called =>
        LET d == dropPosition(conv.screenX, conv.screenY, documentLoaded, pageRect)
        IN  /\ Max(0, d.x) = Max(0, conv.x)
            /\ Max(0, d.y) = Max(0, conv.y)

(***************************************************************************)
(* C25.  The layout of a string under letter and word spacing, stated by   *)
(* walking the characters of the transformed string with a cursor.         *)
(***************************************************************************)
\* one unit per character other than the blank: a character advances the
\* cursor by its estimated width plus letterSpacing, a blank by the
\* estimated width of the blank plus wordSpacing
RECURSIVE StatedCharUnits(_, _, _)
StatedCharUnits(e, text, cursor) ==
    IF Len(text) = 0 THEN <<>>
    ELSE IF Head(text) = " "
         THEN StatedCharUnits(e, Tail(text),
                  cursor + estimateCharWidth(" ", e.fontSize, e.fontFamily)
                         + Spacing(e.wordSpacing))
         ELSE <<[text |-> <<Head(text)>>, x |-> cursor]>> \o
              StatedCharUnits(e, Tail(text),
                  cursor + estimateCharWidth(Head(text), e.fontSize, e.fontFamily)
                         + Spacing(e.letterSpacing))

\* one unit per word: a word advances the cursor by its estimated width and
\* the blank after it by the estimated width of the blank plus wordSpacing
RECURSIVE StatedWordUnits(_, _, _, _)
StatedWordUnits(e, text, word, cursor) ==
    IF Len(text) = 0 THEN <<[text |-> word, x |-> cursor]>>
    ELSE IF Head(text) = " "
         THEN <<[text |-> word, x |-> cursor]>> \o
              StatedWordUnits(e, Tail(text), <<>>,
                  cursor + estimateTextWidth(word, e.fontSize, e.fontFamily)
                         + estimateCharWidth(" ", e.fontSize, e.fontFamily)
                         + Spacing(e.wordSpacing))
         ELSE StatedWordUnits(e, Tail(text), Append(word, Head(text)), cursor)

StatedUnits(e) ==
    LET content == processedContent(e)
        x == Max(0, FlippedX(e))
    IN  IF Spacing(e.letterSpacing) = 0 /\ Spacing(e.wordSpacing) = 0
        THEN <<[text |-> content, x |-> x]>>
        ELSE IF Spacing(e.letterSpacing) # 0
             THEN StatedCharUnits(e, content, x)
             ELSE StatedWordUnits(e, content, <<>>, x)

\* C25: an element whose letterSpacing and wordSpacing are both zero or
\* undefined is drawn by one call with the whole transformed string;
\* otherwise the string is split on the blank and drawn unit by unit from
\* drawX, the cursor advancing by the estimated character width plus
\* letterSpacing after every character (by the estimated word width when
\* letterSpacing is zero) and by the estimated width of the blank plus
\* wordSpacing between words; every unit has the same drawY.
C25_SpacingLayout ==
    ComposedOk =>
        \A k \in 1..Len(elements) :
            LET e == elements[k]
            IN  (WellFormed(e) /\ InRange(e) /\ OnPage(e)) =>
                    LET ops == TextsOf(k, e.pageNumber)
                        units == StatedUnits(e)
                    IN  /\ Len(ops) = Len(units)
                        /\ \A j \in 1..Len(ops) :
                               /\ ops[j].text = units[j].text
                               /\ ops[j].x = units[j].x
                               /\ ops[j].y = Max(0, FlippedY(e))

\* "a m" with both spacings set: two one-character units, the second after
\* one character advance and one word gap
C25_Witness ==
    /\ ComposedOk
    /\ Len(elements) = 1
    /\ WellFormed(elements[1]) /\ InRange(elements[1]) /\ OnPage(elements[1])
    /\ Spacing(elements[1].letterSpacing) # 0
    /\ Spacing(elements[1].wordSpacing) # 0
    /\ elements[1].content = <<"a", " ", "m">>
    /\ Len(TextsOf(1, 1)) = 2
    /\ TextsOf(1, 1)[2].x - TextsOf(1, 1)[1].x =
           estimateCharWidth("a", elements[1].fontSize, elements[1].fontFamily)
           + Spacing(elements[1].letterSpacing)
           + estimateCharWidth(" ", elements[1].fontSize, elements[1].fontFamily)
           + Spacing(elements[1].wordSpacing)

(***************************************************************************)
(* C29.  The arrow keys.                                                   *)
(***************************************************************************)
\* C29: an arrow key moves the selected element by at most 0.5 in the
\* direction of the key and never the other way (ArrowRight and ArrowDown do
\* not decrease x and y, ArrowLeft and ArrowUp do not increase them), from
\* every position a placement or a drag can give the element, and the
\* coordinates stay >= 0.
C29_NudgeInKeyDirection ==
    [][\A key \in Keys :
           HandleKeyDown(key) =>
               LET before == ElementOf(selectedElementId)
                   after == ElementOf(selectedElementId)'
                   dx == after.x - before.x
                   dy == after.y - before.y
               IN  /\ after.x >= 0 /\ after.y >= 0
                   /\ key = "ArrowRight" => dx \in 0..(Unit \div 2) /\ dy = 0
                   /\ key = "ArrowLeft" => -dx \in 0..(Unit \div 2) /\ dy = 0
                   /\ key = "ArrowDown" => dy \in 0..(Unit \div 2) /\ dx = 0
                   /\ key = "ArrowUp" => -dy \in 0..(Unit \div 2) /\ dx = 0]_vars

(***************************************************************************)
(* C30.  The glyph anchors and the page on display.                        *)
(***************************************************************************)
\* C30: the glyph anchors a placement snaps to belong to the page on
\* display: whenever a double-click can place an element on currentPage,
\* pdfTextItems is empty or holds the anchors extracted from that page,
\* however page changes, page loads and text extractions interleave.
C30_AnchorsOfTheDisplayedPage ==
    (/\ pdfData.kind = "pdf"
     /\ documentLoaded
     /\ ~isPreviewMode
     /\ currentPage \in 1..Len(pdfData.pages))
    => pdfTextItems \in {<<>>, textItems(pdfData.pages[currentPage])}

=============================================================================
